---- MODULE Spec2Model ----
(***************************************************************************)
(* mqtt-bus: the MQTT session (src/bus/mqtt_client.py and                  *)
(* src/raspberry/mqtt_client.py), the stop-side GPIO controller            *)
(* (src/raspberry/gpio_controller.py) and the handlers that wire them      *)
(* (src/raspberry/main.py, src/bus/main.py).                               *)
(*                                                                         *)
(* Threads are modelled at the granularity of Python's shared-attribute    *)
(* reads and writes: a test of self.is_connected and the publish that      *)
(* follows it are two steps, and the transport's callbacks run between     *)
(* them.                                                                   *)
(***************************************************************************)
EXTENDS Integers, Sequences, FiniteSets, TLC

(* ----------------------------- bounds --------------------------------- *)

\* calls of connect() and of disconnect() the caller makes in one run
MaxConnects == 1
MaxDisconnects == 2
\* calls of connect() where the session is connected again and again
MaxSessions == 2
\* iterations of connect()'s wait loop where the loop's length is scaled
MaxPolls == 2

(* ------------------------- program constants -------------------------- *)

\* for _ in range(100): the polls of connect()'s bounded wait
CONNECT_POLLS == 100
\* Config.DEBOUNCE_TIME, 0.3 s, in units of 0.1 s
DEBOUNCE_TIME == 3
\* Config.HEARTBEAT_INTERVAL, 30 s, in units of 0.1 s
HEARTBEAT_INTERVAL == 300

Variants == {"bus", "stop"}

VARIABLES
    variant,        \* which device's MQTTClient this is
    identity,       \* Config.BUS_ID / Config.STOP_ID, read from the environment
    client,         \* self.client is not None
    is_connected,   \* self.is_connected
    running,        \* self._running
    loop,           \* the transport's network thread is running (loop_start/loop_stop)
    tstate,         \* the transport connection: "none", "pending" (CONNACK awaited), "up"
    subs,           \* the topic filters subscribed to on the present connection
    will,           \* the last-will message registered with the transport
    pcMain,         \* the calling thread's position in connect()/disconnect()
    polls,          \* iterations of connect()'s wait loop completed
    hb,             \* heartbeat threads, in order of start: each one's position
    hbWake,         \* for each heartbeat thread in time.sleep, when the sleep ends
    pcPub,          \* the publishing thread (location loop / button handler)
    pcNet,          \* the network thread's position inside _on_connect
    wire,           \* the last message handed to client.publish, and whether
                    \* self.is_connected held at that call
    offlineCnt,     \* "offline" status publishes handed to the transport
    everConnected,  \* is_connected has been True at some point
    call,           \* what the connect() call in progress (or last made) did
    dcall,          \* what the disconnect() call in progress (or last made) did
    preq,           \* what the publish request in progress (or last made) did
    nConnect,       \* connect() calls made
    nDisconnect,    \* disconnect() calls made
    beats,          \* where kept, the times of the heartbeat thread's publishes
    now,            \* the clock, time.time(), in units of 0.1 s
    gpioAvailable,  \* GPIO_AVAILABLE: RPi.GPIO was imported (else the mock)
    boot,           \* how far BusStopSystem.initialize() has got
    initialized,    \* GPIOController._initialized
    button_callbacks,   \* routes with a registered button callback
    message_callbacks,  \* self.message_callbacks: event type -> callback
    button_states,  \* GPIOController.button_states
    led_states,     \* GPIOController.led_states
    last_button_press,  \* GPIOController.last_button_press
    pin,            \* the level last written to each route's LED pin
    led_red_state,  \* the bus's GPIOController.led_red_state
    led_green_state,    \* the bus's GPIOController.led_green_state
    beeps,          \* the bus's beep threads started, in order
    ledCalls,       \* the stop's set_led calls traced step by step, in order
    presses,        \* the accepted edges, in order, each with its handler thread
    blinks,         \* the blink threads started, in order
    nEdges,         \* edges delivered to _button_callback
    lastEdge,       \* the last edge delivered and what became of it
    nCmds,          \* LED control commands handled
    lastCmd,        \* the last LED control command handled
    ROUTE_ID,       \* Config.ROUTE_ID, the route this bus serves
    nMsgs,          \* inbound messages delivered to the bus's _on_message
    lastMsg,        \* the last of them: its topic and payload
    dispatched,     \* the callback _on_message made for it, if any
    invoked,        \* the callable that callback was
    lastReg         \* the last register_callback call: event type, callback

sessVars == <<variant, identity, client, is_connected, running, loop, tstate, subs,
             will>>
thrVars == <<pcMain, polls, hb, hbWake, pcPub, pcNet>>
obsVars == <<wire, offlineCnt, everConnected, call, dcall, preq,
             nConnect, nDisconnect, beats>>
timeVars == <<now>>
busLedVars == <<led_red_state, led_green_state>>
gpioVars == <<gpioAvailable, boot, initialized, button_callbacks,
              message_callbacks, button_states, led_states, last_button_press,
              pin, busLedVars, beeps, ledCalls, presses, blinks, nEdges, lastEdge, nCmds,
              lastCmd>>
msgVars == <<ROUTE_ID, nMsgs, lastMsg, dispatched, invoked>>
routeVars == <<msgVars, lastReg>>
vars == <<sessVars, thrVars, obsVars, timeVars, gpioVars, routeVars>>

(* ----------------------------- messages ------------------------------- *)

\* the identities of the deployment: BUS_ID and STOP_ID in the environment
BUS_ID == "BUS1"
STOP_ID == "STOP1"
DefaultIdentity(v) == IF v = "bus" THEN BUS_ID ELSE STOP_ID
Routes == {"1", "2"}

\* A topic is the sequence of its "/"-separated levels: "bus/status/BUS1" is
\* <<"bus", "status", "BUS1">> (str.split("/") of the topic string).
\* Config.get_topics() / Config.get_mqtt_topics(): the topics this device publishes on
StatusTopic(v) == IF v = "bus" THEN <<"bus", "status", identity>>
                  ELSE <<"device", "status", identity>>
LocationTopic == <<"bus", "location", identity>>
HeartbeatTopic == <<"device", "heartbeat", identity>>
ButtonPressTopic == <<"device", "button", identity>>
\* the topic with the route before the stop
ButtonTopicRouteFirst(r) == <<"device", "button", r, identity>>

\* f"{self.topics['button_press']}/{route_id}"
ButtonTopic(r) == ButtonPressTopic \o <<r>>

NoMsg == [topic |-> <<>>, kind |-> "none", qos |-> 0, retain |-> FALSE, conn |-> TRUE]

\* the status published without the retain flag
StatusMsgUnretained(v, status) ==
    [topic |-> StatusTopic(v), kind |-> status, qos |-> 1, retain |-> FALSE]

\* _publish_status(status): client.publish(status topic, ..., qos=1, retain=True)
StatusMsg(v, status) ==
    [topic |-> StatusTopic(v), kind |-> status, qos |-> 1, retain |-> TRUE]

\* initialize(): client.will_set(status topic, "offline" payload, qos=1,
\* retain=True)
LastWill(v) ==
    [topic |-> StatusTopic(v), kind |-> "offline", qos |-> 1, retain |-> TRUE]

NoWill == [topic |-> <<>>, kind |-> "none", qos |-> 0, retain |-> FALSE]

\* _publish_heartbeat(): client.publish(heartbeat topic, ..., qos=0)
HeartbeatMsg ==
    [topic |-> HeartbeatTopic, kind |-> "heartbeat", qos |-> 0, retain |-> FALSE]

\* publish_location(): client.publish(bus_location, ..., qos=0)
LocationMsg ==
    [topic |-> LocationTopic, kind |-> "location", qos |-> 0, retain |-> FALSE]

\* publish_button_press(route_id, ...): client.publish(button_press/route_id, ..., qos=1)
ButtonMsg(r) ==
    [topic |-> ButtonTopic(r), kind |-> "button", qos |-> 1, retain |-> FALSE]

\* A call of self.client.publish: the message is handed to the transport,
\* whatever self.is_connected is at that moment.
Hand(msg) ==
    wire' = [topic |-> msg.topic, kind |-> msg.kind, qos |-> msg.qos,
             retain |-> msg.retain, conn |-> is_connected]

\* connect(): a poll or the final test has read is_connected True; the call has
\* started a heartbeat thread; has published "online"; its return value
NoCall == [seen |-> FALSE, started |-> FALSE, online |-> FALSE, result |-> "none"]
\* disconnect(): its test read the session Connected; the session had been
\* Connected at some point before that test; the call has published "offline";
\* it has returned; the number of connect() calls made when a disconnect()
\* last tore the transport down (0: none has)
NoDcall == [saw |-> FALSE, ever |-> FALSE, pub |-> FALSE, done |-> FALSE,
            downAt |-> 0]
\* publish requests made, those that passed the is_connected test, those handed
\* to client.publish, and the last request's return value
NoReq == [n |-> 0, passed |-> 0, handed |-> 0, result |-> "none"]

\* Config.get_topics()["route_call"], ["system_health"];
\* Config.get_mqtt_topics()["led_control"]: "+" stands for one level
RouteCallFilter == <<"device", "button", "+", "+">>
LedControlFilter == <<"device", "led", identity, "+">>
SystemHealthTopic == <<"system", "health">>

\* _on_connect with rc == 0: the two filters each device subscribes to
Subscriptions(v) == IF v = "bus" THEN {RouteCallFilter, SystemHealthTopic}
                    ELSE {LedControlFilter, SystemHealthTopic}

\* the broker's match of a topic against a filter with single-level wildcards
Matches(topic, filter) ==
    /\ Len(topic) = Len(filter)
    /\ \A k \in 1 .. Len(filter) : filter[k] = "+" \/ filter[k] = topic[k]

\* the variables no session action touches
notSess == <<timeVars, gpioVars, routeVars>>

(* ------------------------ MQTTClient: the caller ---------------------- *)

ConnectPcs == {"c_poll", "c_test", "c_hb", "c_online"}

\* MQTTClient.initialize(): builds the client, registers callbacks and the will
Initialize ==
    /\ pcMain = "idle"
    /\ ~client
    /\ client' = TRUE
    /\ will' = LastWill(variant)
    /\ UNCHANGED <<variant, identity, is_connected, running, loop, tstate, subs>>
    /\ UNCHANGED <<thrVars, obsVars, notSess>>

\* connect(), up to the wait loop: client.connect(); loop_start(); _running = True.
\* With no client the bus variant returns False at once and the stop variant
\* raises AttributeError into its except clause; client.connect() itself may
\* raise (refused, unreachable): in each case connect() returns False.
ConnectCallTo(limit) ==
    /\ pcMain = "idle"
    /\ nConnect < limit
    /\ nConnect' = nConnect + 1
    /\ \E raises \in BOOLEAN :
          IF ~client \/ raises
          THEN /\ call' = [NoCall EXCEPT !.result = "fail"]
               /\ UNCHANGED <<sessVars, thrVars>>
          ELSE /\ call' = NoCall
               /\ tstate' = "pending"
               /\ loop' = TRUE
               /\ running' = TRUE
               /\ polls' = 0
               /\ pcMain' = "c_poll"
               /\ UNCHANGED <<variant, identity, client, is_connected, hb, pcPub, subs,
                              hbWake, will, pcNet>>
    /\ UNCHANGED <<wire, offlineCnt, everConnected, dcall, preq,
                   nDisconnect, notSess, beats>>

\* connect(), MaxConnects times in a run at most
ConnectCall == ConnectCallTo(MaxConnects)

\* for _ in range(100): if self.is_connected: break; time.sleep(0.1)
\* with `limit` iterations at most
ConnectPollTo(limit) ==
    /\ pcMain = "c_poll"
    /\ IF is_connected
       THEN /\ pcMain' = "c_test"
            /\ call' = [call EXCEPT !.seen = TRUE]
            /\ UNCHANGED polls
       ELSE /\ polls' = polls + 1
            /\ pcMain' = IF polls + 1 >= limit THEN "c_test" ELSE "c_poll"
            /\ UNCHANGED call
    /\ UNCHANGED <<sessVars, hb, pcPub, notSess, hbWake, pcNet>>
    /\ UNCHANGED <<wire, offlineCnt, everConnected, dcall, preq,
                   nConnect, nDisconnect, beats>>

\* The steps of the other threads are not timed, so the interleavings of the
\* wait loop with them are those of a loop of any length: MaxPolls iterations
\* here, the program's CONNECT_POLLS in SpecConnect.
ConnectPoll == ConnectPollTo(MaxPolls)

ConnectPollFull == ConnectPollTo(CONNECT_POLLS)

\* the final test left out: connect() goes on once the wait loop has ended
ConnectTestSkipped ==
    /\ pcMain = "c_test"
    /\ pcMain' = "c_hb"
    /\ call' = [call EXCEPT !.seen = @ \/ is_connected]
    /\ UNCHANGED <<sessVars, polls, hb, pcPub, notSess, hbWake, pcNet>>
    /\ UNCHANGED <<wire, offlineCnt, everConnected, dcall, preq,
                   nConnect, nDisconnect, beats>>

\* if self.is_connected: ... else: return False
ConnectTest ==
    /\ pcMain = "c_test"
    /\ IF is_connected
       THEN /\ pcMain' = "c_hb"
            /\ call' = [call EXCEPT !.seen = TRUE]
       ELSE /\ pcMain' = "idle"
            /\ call' = [call EXCEPT !.result = "fail"]
    /\ UNCHANGED <<sessVars, polls, hb, pcPub, notSess, hbWake, pcNet>>
    /\ UNCHANGED <<wire, offlineCnt, everConnected, dcall, preq,
                   nConnect, nDisconnect, beats>>

\* self._start_heartbeat(): a new daemon thread, at the top of its while loop
ConnectStartHeartbeat ==
    /\ pcMain = "c_hb"
    /\ hb' = Append(hb, "loop")
    /\ hbWake' = Append(hbWake, 0)
    /\ call' = [call EXCEPT !.started = TRUE]
    /\ pcMain' = "c_online"
    /\ UNCHANGED <<sessVars, polls, pcPub, notSess, pcNet>>
    /\ UNCHANGED <<wire, offlineCnt, everConnected, dcall, preq,
                   nConnect, nDisconnect, beats>>

\* self._publish_status("online"); return True
ConnectPublishOnline ==
    /\ pcMain = "c_online"
    /\ Hand(StatusMsg(variant, "online"))
    /\ call' = [call EXCEPT !.online = TRUE, !.result = "ok"]
    /\ pcMain' = "idle"
    /\ UNCHANGED <<sessVars, polls, hb, pcPub, notSess, hbWake, pcNet>>
    /\ UNCHANGED <<offlineCnt, everConnected, dcall, preq, nConnect,
                   nDisconnect, beats>>

\* disconnect(): self._running = False.  It is called by shutdown(), from the
\* main loop's finally clause or from the signal handler, which runs on the
\* main thread and so may cut a connect() in progress short.
DisconnectCall ==
    /\ pcMain \in {"idle"} \cup ConnectPcs
    /\ nDisconnect < MaxDisconnects
    /\ nDisconnect' = nDisconnect + 1
    /\ running' = FALSE
    /\ pcMain' = IF variant = "stop" THEN "d_join" ELSE "d_test"
    /\ dcall' = [NoDcall EXCEPT !.downAt = dcall.downAt]
    /\ UNCHANGED <<variant, identity, client, is_connected, loop, tstate, subs, will>>
    /\ UNCHANGED <<polls, hb, pcPub, notSess, hbWake, pcNet>>
    /\ UNCHANGED <<wire, offlineCnt, everConnected, call, preq, nConnect,
                   beats>>

\* stop variant: if self.heartbeat_thread: self.heartbeat_thread.join(timeout=2)
\* returns when the thread has ended or when the two seconds are over.
DisconnectJoin ==
    /\ pcMain = "d_join"
    /\ pcMain' = "d_test"
    /\ UNCHANGED <<sessVars, polls, hb, pcPub, obsVars, notSess, hbWake, pcNet>>

\* the test on self.client alone: "offline" is published whatever is_connected is
DisconnectTestClientOnly ==
    /\ pcMain = "d_test"
    /\ IF client
       THEN /\ pcMain' = "d_offline"
            /\ dcall' = [dcall EXCEPT !.saw = is_connected, !.ever = everConnected]
       ELSE /\ pcMain' = "idle"
            /\ dcall' = [dcall EXCEPT !.ever = everConnected, !.done = TRUE]
    /\ UNCHANGED <<sessVars, polls, hb, pcPub, notSess, hbWake, pcNet>>
    /\ UNCHANGED <<wire, offlineCnt, everConnected, call, preq,
                   nConnect, nDisconnect, beats>>

\* if self.client and self.is_connected:
DisconnectTest ==
    /\ pcMain = "d_test"
    /\ IF client /\ is_connected
       THEN /\ pcMain' = "d_offline"
            /\ dcall' = [dcall EXCEPT !.saw = TRUE, !.ever = everConnected]
       ELSE /\ pcMain' = "idle"
            /\ dcall' = [dcall EXCEPT !.ever = everConnected, !.done = TRUE]
    /\ UNCHANGED <<sessVars, polls, hb, pcPub, notSess, hbWake, pcNet>>
    /\ UNCHANGED <<wire, offlineCnt, everConnected, call, preq,
                   nConnect, nDisconnect, beats>>

\* self._publish_status("offline")
DisconnectPublishOffline ==
    /\ pcMain = "d_offline"
    /\ Hand(StatusMsg(variant, "offline"))
    /\ offlineCnt' = offlineCnt + 1
    /\ dcall' = [dcall EXCEPT !.pub = TRUE]
    /\ pcMain' = "d_stop"
    /\ UNCHANGED <<sessVars, polls, hb, pcPub, notSess, hbWake, pcNet>>
    /\ UNCHANGED <<everConnected, call, preq, nConnect, nDisconnect, beats>>

\* the teardown without the transport's on_disconnect callback
DisconnectTeardownSilent ==
    /\ pcMain = "d_stop"
    /\ pcNet # "subscribe"
    /\ loop' = FALSE
    /\ tstate' = "none"
    /\ subs' = {}
    /\ dcall' = [dcall EXCEPT !.done = TRUE, !.downAt = nConnect]
    /\ pcMain' = "idle"
    /\ UNCHANGED <<variant, identity, client, running, is_connected, will>>
    /\ UNCHANGED <<polls, hb, pcPub, notSess, hbWake, pcNet>>
    /\ UNCHANGED <<wire, offlineCnt, everConnected, call, preq,
                   nConnect, nDisconnect, beats>>

\* self.client.loop_stop(); self.client.disconnect(): the network thread is
\* joined once the callback it is in has returned, and the transport,
\* writing DISCONNECT on a live socket (connection up, or CONNACK awaited
\* after client.connect()) from the caller's thread, calls on_disconnect(rc=0)
\* there; a socket that is gone has had its on_disconnect from the network
\* thread already. Either way is_connected is False afterwards.
DisconnectTeardown ==
    /\ pcMain = "d_stop"
    /\ pcNet # "subscribe"
    /\ loop' = FALSE
    /\ tstate' = "none"
    /\ subs' = {}
    /\ is_connected' = FALSE
    /\ dcall' = [dcall EXCEPT !.done = TRUE, !.downAt = nConnect]
    /\ pcMain' = "idle"
    /\ UNCHANGED <<variant, identity, client, running, will>>
    /\ UNCHANGED <<polls, hb, pcPub, notSess, hbWake, pcNet>>
    /\ UNCHANGED <<wire, offlineCnt, everConnected, call, preq,
                   nConnect, nDisconnect, beats>>

(* -------------------- the transport's network thread ------------------ *)

\* CONNACK result codes: 0 accepted, 5 not authorised (any nonzero code)
ResultCodes == {0, 5}

\* the result code not looked at: every acknowledgement sets the flag
OnConnectAnyCode(rc) ==
    /\ loop
    /\ tstate = "pending"
    /\ pcNet = "idle"
    /\ is_connected' = TRUE
    /\ everConnected' = TRUE
    /\ IF rc = 0
       THEN tstate' = "up" /\ pcNet' = "subscribe"
       ELSE UNCHANGED <<tstate, pcNet>>
    /\ UNCHANGED <<variant, identity, client, running, loop, subs, will>>
    /\ UNCHANGED <<pcMain, polls, hb, hbWake, pcPub, notSess>>
    /\ UNCHANGED <<wire, offlineCnt, call, dcall, preq, nConnect,
                   nDisconnect, beats>>

\* _on_connect(client, userdata, flags, rc), delivered by the network thread
\* for each CONNACK; after a refusal or a drop the transport connects again.
\* With rc == 0 the flag is set first and the subscriptions follow.
OnConnect(rc) ==
    /\ loop
    /\ tstate = "pending"
    /\ pcNet = "idle"
    /\ IF rc = 0
       THEN /\ is_connected' = TRUE
            /\ everConnected' = TRUE
            /\ tstate' = "up"
            /\ pcNet' = "subscribe"
       ELSE /\ is_connected' = IF variant = "stop" THEN FALSE ELSE is_connected
            /\ UNCHANGED <<everConnected, tstate, pcNet>>
    /\ UNCHANGED <<variant, identity, client, running, loop, subs, will>>
    /\ UNCHANGED <<pcMain, polls, hb, hbWake, pcPub, notSess>>
    /\ UNCHANGED <<wire, offlineCnt, call, dcall, preq, nConnect,
                   nDisconnect, beats>>

\* _on_connect, after the flag: client.subscribe(...) for each inbound filter
OnConnectSubscribe ==
    /\ pcNet = "subscribe"
    /\ subs' = Subscriptions(variant)
    /\ pcNet' = "idle"
    /\ UNCHANGED <<variant, identity, client, is_connected, running, loop, tstate, will>>
    /\ UNCHANGED <<pcMain, polls, hb, hbWake, pcPub, obsVars, notSess>>

\* _on_disconnect(client, userdata, rc) for a connection lost (rc != 0)
OnDisconnect(rc) ==
    /\ loop
    /\ tstate = "up"
    /\ pcNet = "idle"
    /\ rc # 0
    /\ is_connected' = FALSE
    /\ tstate' = "pending"
    /\ subs' = {}
    /\ UNCHANGED <<variant, identity, client, running, loop, will>>
    /\ UNCHANGED <<thrVars, obsVars, notSess>>

(* ------------------------- the heartbeat thread ----------------------- *)

HbIds == 1 .. Len(hb)

\* while self._running ...
HbTestRunning(i) ==
    /\ hb[i] = "loop"
    /\ hb' = [hb EXCEPT ![i] = IF running THEN "loop2" ELSE "dead"]
    /\ UNCHANGED <<sessVars, pcMain, polls, pcPub, obsVars, notSess, hbWake,
                   pcNet>>

\* ... and self.is_connected:
HbTestConnected(i) ==
    /\ hb[i] = "loop2"
    /\ hb' = [hb EXCEPT ![i] = IF ~is_connected THEN "dead"
                               ELSE IF variant = "stop" THEN "guard" ELSE "pub"]
    /\ UNCHANGED <<sessVars, pcMain, polls, pcPub, obsVars, notSess, hbWake,
                   pcNet>>

\* the sleep twice as long
HeartbeatWakeLate(t) == t + 2 * HEARTBEAT_INTERVAL

\* time.sleep(Config.HEARTBEAT_INTERVAL) entered at time t ends at
HeartbeatWake(t) == t + HEARTBEAT_INTERVAL

\* stop variant, _publish_heartbeat(): if not self.is_connected: return
\* and then the worker's time.sleep(Config.HEARTBEAT_INTERVAL)
HbGuard(i) ==
    /\ hb[i] = "guard"
    /\ IF is_connected
       THEN /\ hb' = [hb EXCEPT ![i] = "pub"]
            /\ UNCHANGED hbWake
       ELSE /\ hb' = [hb EXCEPT ![i] = "sleep"]
            /\ hbWake' = [hbWake EXCEPT ![i] = HeartbeatWake(now)]
    /\ UNCHANGED <<sessVars, pcMain, polls, pcPub, obsVars, notSess, pcNet>>

\* bus: self._publish_status("online"); stop: client.publish(heartbeat topic);
\* then time.sleep(Config.HEARTBEAT_INTERVAL).  Where time is kept (`timed`),
\* the time of the publish is logged.
HbPublish(i, timed) ==
    /\ hb[i] = "pub"
    /\ Hand(IF variant = "bus" THEN StatusMsg(variant, "online") ELSE HeartbeatMsg)
    /\ beats' = IF timed THEN Append(beats, now) ELSE beats
    /\ hb' = [hb EXCEPT ![i] = "sleep"]
    /\ hbWake' = [hbWake EXCEPT ![i] = HeartbeatWake(now)]
    /\ UNCHANGED <<sessVars, pcMain, polls, pcPub, notSess, pcNet>>
    /\ UNCHANGED <<offlineCnt, everConnected, call, dcall, preq, nConnect,
                   nDisconnect>>

\* time.sleep(Config.HEARTBEAT_INTERVAL) is over: where time is kept, not
\* before the clock has reached the end of the sleep
HbWake(i, timed) ==
    /\ hb[i] = "sleep"
    /\ timed => now >= hbWake[i]
    /\ hb' = [hb EXCEPT ![i] = "loop"]
    /\ hbWake' = [hbWake EXCEPT ![i] = 0]
    /\ UNCHANGED <<sessVars, pcMain, polls, pcPub, obsVars, notSess, pcNet>>

(* -------------- publish requests: location, button press -------------- *)

\* requests the publishing thread makes in one run
MaxRequests == 1

\* the test left out: every request goes on to client.publish
PublishAllowedAlways == TRUE

\* bus, publish_location(): if not self.client or not self.is_connected: return
\* stop, publish_button_press(): if not self.is_connected: return False
PublishAllowed == IF variant = "bus" THEN client /\ is_connected ELSE is_connected

PublishRequest ==
    /\ pcPub = "idle"
    /\ preq.n < MaxRequests
    /\ IF PublishAllowed
       THEN /\ pcPub' = "send"
            /\ preq' = [preq EXCEPT !.n = @ + 1, !.passed = @ + 1,
                                    !.result = "none"]
       ELSE /\ pcPub' = "idle"
            /\ preq' = [preq EXCEPT !.n = @ + 1,
                                    !.result = IF variant = "stop" THEN "fail"
                                               ELSE "none"]
    /\ UNCHANGED <<sessVars, pcMain, polls, hb, notSess, hbWake, pcNet>>
    /\ UNCHANGED <<wire, offlineCnt, everConnected, call, dcall,
                   nConnect, nDisconnect, beats>>

\* bus: client.publish(bus_location, ..., qos=0), result ignored;
\* stop: result = client.publish(button topic, ..., qos=1) and
\* return result.rc == MQTT_ERR_SUCCESS (MQTT_ERR_NO_CONN without a connection)
PublishSend(r) ==
    /\ pcPub = "send"
    /\ Hand(IF variant = "bus" THEN LocationMsg ELSE ButtonMsg(r))
    /\ preq' = [preq EXCEPT !.handed = @ + 1,
                            !.result = IF variant = "bus" THEN "none"
                                       ELSE IF tstate = "up" THEN "ok" ELSE "fail"]
    /\ pcPub' = "idle"
    /\ UNCHANGED <<sessVars, pcMain, polls, hb, notSess, hbWake, pcNet>>
    /\ UNCHANGED <<offlineCnt, everConnected, call, dcall, nConnect,
                   nDisconnect, beats>>

(* ------------------- GPIOController (stop side) ------------------------ *)

\* edges delivered, and LED control commands handled, in one run
MaxEdges == 3
\* edges delivered where the handler threads run as well
MaxPresses == 2
MaxCommands == 2
\* set_led calls traced step by step
MaxLedCalls == 3
\* ticks of 0.1 s the clock advances in one run
MaxTicks == 4

\* time.time() counts from 1970: the first reading is far above DEBOUNCE_TIME
Epoch == DEBOUNCE_TIME

\* a route id no button or LED is configured for
UnknownRoute == "9"

NoEdge == [route |-> "", at |-> 0, accepted |-> FALSE]
NoCmd == [route |-> "", status |-> ""]

\* {}
EmptyDict == [k \in {} |-> FALSE]

\* dict.get(key, default)
Get(dict, key, default) == IF key \in DOMAIN dict THEN dict[key] ELSE default

\* d[key] = value
Put(dict, key, value) ==
    [k \in DOMAIN dict \cup {key} |-> IF k = key THEN value ELSE dict[k]]

\* get_led_state(route_id): self.led_states.get(route_id, False)
GetLedState(r) == Get(led_states, r, FALSE)

\* GPIO.cleanup() has run: GPIO.output on a channel raises RuntimeError from
\* then on (inside set_led's try on the stop, out of the calling thread on
\* the bus)
CleanedUp == gpioAvailable /\ boot \in {"cleanup", "down"}

\* set_led without the record of the state: led_states is left as it was
SetLedUnrecorded(leds, pins, r, state) ==
    IF r \notin Routes THEN [led |-> leds, pin |-> pins]
    ELSE IF ~gpioAvailable THEN [led |-> leds, pin |-> pins]
    ELSE [led |-> leds, pin |-> Put(pins, r, state)]

\* set_led without the test on routes_config: the state is recorded under
\* whatever route id is given
SetLedAnyRoute(leds, pins, r, state) ==
    IF gpioAvailable /\ r \in Routes /\ ~CleanedUp
    THEN [led |-> Put(leds, r, state), pin |-> Put(pins, r, state)]
    ELSE [led |-> Put(leds, r, state), pin |-> pins]

\* set_led(route_id, state), applied to led_states `leds` and pin levels
\* `pins`: an unknown route changes nothing; the mock records the state; with
\* RPi.GPIO the pin is driven and the state recorded.
SetLed(leds, pins, r, state) ==
    IF r \notin Routes THEN [led |-> leds, pin |-> pins]
    ELSE IF ~gpioAvailable THEN [led |-> Put(leds, r, state), pin |-> pins]
    ELSE IF CleanedUp THEN [led |-> leds, pin |-> pins]
    ELSE [led |-> Put(leds, r, state), pin |-> Put(pins, r, state)]

LedCallIds == 1 .. Len(ledCalls)

\* set_led(route_id, state) entered by a thread: the RPi.GPIO event thread
\* ("button", from _button_callback), the network thread ("network", from
\* _on_led_control) or a blink worker ("blink"). Nothing in set_led or in its
\* callers takes a lock. An unknown route returns False; with the mock the
\* state is recorded and the call returns; with RPi.GPIO the call goes on to
\* GPIO.output and then to the assignment of led_states, as steps of their
\* own. A thread makes one call at a time.
SetLedCall(by, r, state) ==
    /\ variant = "stop"
    /\ boot # "new"
    /\ Len(ledCalls) < MaxLedCalls
    /\ \A i \in LedCallIds : ledCalls[i].by = by => ledCalls[i].pc = "done"
    /\ ledCalls' = Append(ledCalls,
          [by |-> by, route |-> r, state |-> state,
           pc |-> IF r \in Routes /\ gpioAvailable THEN "output" ELSE "done"])
    /\ led_states' = IF r \in Routes /\ ~gpioAvailable
                     THEN Put(led_states, r, state)
                     ELSE led_states
    /\ UNCHANGED <<busLedVars, beeps, gpioAvailable, boot, initialized,
                   button_callbacks, message_callbacks, button_states,
                   last_button_press, pin, presses, blinks, nEdges, lastEdge,
                   nCmds, lastCmd>>
    /\ UNCHANGED <<sessVars, thrVars, obsVars, timeVars, routeVars>>

\* GPIO.output(led_pin, GPIO.HIGH if state else GPIO.LOW)
SetLedOutput(i) ==
    /\ ledCalls[i].pc = "output"
    /\ pin' = Put(pin, ledCalls[i].route, ledCalls[i].state)
    /\ ledCalls' = [ledCalls EXCEPT ![i].pc = "record"]
    /\ UNCHANGED <<busLedVars, beeps, gpioAvailable, boot, initialized,
                   button_callbacks, message_callbacks, button_states,
                   led_states, last_button_press, presses, blinks, nEdges,
                   lastEdge, nCmds, lastCmd>>
    /\ UNCHANGED <<sessVars, thrVars, obsVars, timeVars, routeVars>>

\* self.led_states[route_id] = state; return True
SetLedRecord(i) ==
    /\ ledCalls[i].pc = "record"
    /\ led_states' = Put(led_states, ledCalls[i].route, ledCalls[i].state)
    /\ ledCalls' = [ledCalls EXCEPT ![i].pc = "done"]
    /\ UNCHANGED <<busLedVars, beeps, gpioAvailable, boot, initialized,
                   button_callbacks, message_callbacks, button_states,
                   last_button_press, pin, presses, blinks, nEdges, lastEdge,
                   nCmds, lastCmd>>
    /\ UNCHANGED <<sessVars, thrVars, obsVars, timeVars, routeVars>>

\* the debounce test left out
BouncedNever(r, t) == FALSE

\* the debounce test with the window's end excluded
BouncedInclusive(r, t) == t - Get(last_button_press, r, 0) <= DEBOUNCE_TIME

\* if current_time - self.last_button_press.get(route_id, 0) < Config.DEBOUNCE_TIME
Bounced(r, t) == t - Get(last_button_press, r, 0) < DEBOUNCE_TIME

\* GPIOController.initialize(): with the mock it returns at once; with
\* RPi.GPIO every route's LED pin is driven LOW, its state entries are
\* created and edge detection on its button pin is armed.
GpioInitialize ==
    /\ boot = "new"
    /\ boot' = "gpio"
    /\ IF gpioAvailable
       THEN /\ pin' = [r \in Routes |-> FALSE]
            /\ button_states' = [r \in Routes |-> FALSE]
            /\ led_states' = [r \in Routes |-> FALSE]
            /\ last_button_press' = [r \in Routes |-> 0]
            /\ initialized' = TRUE
       ELSE UNCHANGED <<pin, button_states, led_states, last_button_press,
                        initialized>>
    /\ UNCHANGED <<busLedVars, beeps, ledCalls, gpioAvailable, button_callbacks,
                   message_callbacks, presses,
                   blinks, nEdges, lastEdge, nCmds, lastCmd>>
    /\ UNCHANGED <<sessVars, thrVars, obsVars, timeVars, routeVars>>

\* BusStopSystem._setup_event_handlers(): a button callback for every
\* configured route, then the led_control and system_health callbacks
SetupEventHandlers ==
    /\ boot = "gpio"
    /\ client
    /\ boot' = "wired"
    /\ button_callbacks' = Routes
    /\ message_callbacks' = Put(Put(message_callbacks,
                                    "led_control", "_on_led_control"),
                                "system_health", "_on_system_health")
    /\ lastReg' = [event |-> "system_health", callback |-> "_on_system_health"]
    /\ UNCHANGED <<busLedVars, beeps, ledCalls, gpioAvailable, initialized, button_states,
                   led_states,
                   last_button_press, pin, presses, blinks, nEdges, lastEdge,
                   nCmds, lastCmd>>
    /\ UNCHANGED <<sessVars, thrVars, obsVars, timeVars, msgVars>>

\* time passes: 0.1 s, up to `limit`
TickBefore(limit) ==
    /\ now < limit
    /\ now' = now + 1
    /\ UNCHANGED <<sessVars, thrVars, obsVars, gpioVars, routeVars>>

Tick == TickBefore(Epoch + MaxTicks)

\* the timestamp taken for every edge, the rejected ones as well
ButtonEdgeStampsRejected(r) ==
    /\ initialized
    /\ nEdges < MaxEdges
    /\ nEdges' = nEdges + 1
    /\ IF Bounced(r, now)
       THEN /\ lastEdge' = [route |-> r, at |-> now, accepted |-> FALSE]
            /\ last_button_press' = Put(last_button_press, r, now)
            /\ UNCHANGED <<button_states, led_states, pin, presses>>
       ELSE /\ lastEdge' = [route |-> r, at |-> now, accepted |-> TRUE]
            /\ last_button_press' = Put(last_button_press, r, now)
            /\ button_states' = Put(button_states, r, TRUE)
            /\ LET w == SetLed(led_states, pin, r, TRUE)
               IN  led_states' = w.led /\ pin' = w.pin
            /\ presses' = Append(presses,
                   [route |-> r, at |-> now, calls |-> 0, result |-> "none",
                    pc |-> IF r \in button_callbacks THEN "start" ELSE "nocb"])
    /\ UNCHANGED <<busLedVars, beeps, ledCalls, gpioAvailable, boot, initialized,
                   button_callbacks,
                   message_callbacks, blinks, nCmds, lastCmd>>
    /\ UNCHANGED <<sessVars, thrVars, obsVars, timeVars, routeVars>>

\* _button_callback(route_id, channel), run by RPi.GPIO's callback thread for
\* a falling edge on the route's button pin: the debounce test, then the
\* timestamp, the pressed state, the LED and the handler thread.
ButtonEdge(r) ==
    /\ initialized
    /\ nEdges < MaxEdges
    /\ nEdges' = nEdges + 1
    /\ IF Bounced(r, now)
       THEN /\ lastEdge' = [route |-> r, at |-> now, accepted |-> FALSE]
            /\ UNCHANGED <<last_button_press, button_states, led_states, pin,
                           presses>>
       ELSE /\ lastEdge' = [route |-> r, at |-> now, accepted |-> TRUE]
            /\ last_button_press' = Put(last_button_press, r, now)
            /\ button_states' = Put(button_states, r, TRUE)
            /\ LET w == SetLed(led_states, pin, r, TRUE)
               IN  led_states' = w.led /\ pin' = w.pin
            /\ presses' = Append(presses,
                   [route |-> r, at |-> now, calls |-> 0, result |-> "none",
                    pc |-> IF r \in button_callbacks THEN "start" ELSE "nocb"])
    /\ UNCHANGED <<busLedVars, beeps, ledCalls, gpioAvailable, boot, initialized,
                   button_callbacks,
                   message_callbacks, blinks, nCmds, lastCmd>>
    /\ UNCHANGED <<sessVars, thrVars, obsVars, timeVars, routeVars>>

(* ------------- BusStopSystem: the handlers (stop side) ------------------ *)

PressIds == 1 .. Len(presses)

\* blink_led(route_id, duration, interval): durations in units of 0.1 s
ConfirmBlink == [duration |-> 10, interval |-> 2]
ErrorBlink == [duration |-> 20, interval |-> 1]
DefaultBlink == [duration |-> 20, interval |-> 5]

\* the two patterns exchanged
FeedbackForSwapped(success) == IF success THEN ErrorBlink ELSE ConfirmBlink

\* _on_button_pressed: if success: blink_led(route_id, duration=1.0,
\* interval=0.2) else: blink_led(route_id, duration=2.0, interval=0.1)
FeedbackFor(success) == IF success THEN ConfirmBlink ELSE ErrorBlink

\* _on_route_call on the bus: blink_led(duration=3.0, interval=0.3, color="red")
RouteCallBlink == [duration |-> 30, interval |-> 3]

\* the channel a bus blink thread writes: set_led drives both LEDs at once
BusLeds == "red+green"

\* blink_led starts a daemon thread for the pattern; `by` is the accepted edge
\* whose handler asked for it, 0 for an LED control command. The worker is at
\* pc: "new" (not yet run), "on", "off", "restore", "done"; n counts its
\* completed on/off cycles and original is its local original_state. before
\* is the LED state when the worker began and clean says that no other thread
\* has written the channel since.
BlinkThread(r, pattern, by) ==
    [route |-> r, color |-> "", duration |-> pattern.duration,
     interval |-> pattern.interval, by |-> by, pc |-> "new", n |-> 0,
     original |-> FALSE, before |-> <<FALSE>>, clean |-> TRUE]

\* the bus's blink_led(duration, interval, color): the same, for both LEDs
BusBlinkThread(color, pattern) ==
    [route |-> BusLeds, color |-> color, duration |-> pattern.duration,
     interval |-> pattern.interval, by |-> 0, pc |-> "new", n |-> 0,
     original |-> FALSE, before |-> <<FALSE, FALSE>>, clean |-> TRUE]

\* while time.time() - start_time < duration, with two sleeps of `interval` in
\* every cycle: the cycles a worker whose sleeps are exact makes
Cycles(b) == (b.duration + 2 * b.interval - 1) \div (2 * b.interval)

BlinkIds == 1 .. Len(blinks)

\* a write of channel ch by a thread other than blink thread i (0: by none of
\* them) is noted by the workers that are running a pattern on that channel
Disturb(bl, ch, i) ==
    [b \in DOMAIN bl |->
        IF b # i /\ bl[b].route = ch /\ bl[b].pc \in {"on", "off", "restore"}
        THEN [bl[b] EXCEPT !.clean = FALSE]
        ELSE bl[b]]

\* the handler thread of accepted edge i enters publish_button_press:
\* if not self.is_connected: return False
HandlerCall(i) ==
    /\ presses[i].pc = "start"
    /\ presses' = [presses EXCEPT ![i].calls = @ + 1,
                                  ![i].pc = IF PublishAllowed THEN "send" ELSE "blink",
                                  ![i].result = IF PublishAllowed THEN "none" ELSE "fail"]
    /\ UNCHANGED <<busLedVars, beeps, ledCalls, gpioAvailable, boot, initialized,
                   button_callbacks,
                   message_callbacks, button_states, led_states,
                   last_button_press, pin, blinks, nEdges, lastEdge, nCmds,
                   lastCmd>>
    /\ UNCHANGED <<sessVars, thrVars, obsVars, timeVars, routeVars>>

\* result = self.client.publish(topic, ..., qos=1);
\* return result.rc == mqtt.MQTT_ERR_SUCCESS
HandlerSend(i) ==
    /\ presses[i].pc = "send"
    /\ Hand(ButtonMsg(presses[i].route))
    /\ presses' = [presses EXCEPT ![i].pc = "blink",
                                  ![i].result = IF tstate = "up" THEN "ok" ELSE "fail"]
    /\ UNCHANGED <<busLedVars, beeps, ledCalls, gpioAvailable, boot, initialized,
                   button_callbacks,
                   message_callbacks, button_states, led_states,
                   last_button_press, pin, blinks, nEdges, lastEdge, nCmds,
                   lastCmd>>
    /\ UNCHANGED <<sessVars, thrVars, timeVars, routeVars>>
    /\ UNCHANGED <<offlineCnt, everConnected, call, dcall, preq, nConnect,
                   nDisconnect, beats>>

\* _on_button_pressed, after publish_button_press has returned `success`
HandlerFeedback(i) ==
    /\ presses[i].pc = "blink"
    /\ blinks' = Append(blinks,
           BlinkThread(presses[i].route, FeedbackFor(presses[i].result = "ok"), i))
    /\ presses' = [presses EXCEPT ![i].pc = "done"]
    /\ UNCHANGED <<busLedVars, beeps, ledCalls, gpioAvailable, boot, initialized,
                   button_callbacks,
                   message_callbacks, button_states, led_states,
                   last_button_press, pin, nEdges, lastEdge, nCmds, lastCmd>>
    /\ UNCHANGED <<sessVars, thrVars, obsVars, timeVars, routeVars>>

\* the status values an LED control payload carries
Statuses == {"ON", "OFF", "BLINK", "DIM"}

\* a status that is none of the three taken as 'OFF'
OnLedControlElseOff(r, status) ==
    CASE status = "ON" ->
           /\ LET w == SetLed(led_states, pin, r, TRUE)
              IN  led_states' = w.led /\ pin' = w.pin
           /\ blinks' = IF r \in Routes THEN Disturb(blinks, r, 0) ELSE blinks
      [] status = "BLINK" ->
           /\ blinks' = Append(blinks, BlinkThread(r, DefaultBlink, 0))
           /\ UNCHANGED <<led_states, pin>>
      [] OTHER ->
           /\ LET w == SetLed(led_states, pin, r, FALSE)
              IN  led_states' = w.led /\ pin' = w.pin
           /\ blinks' = IF r \in Routes THEN Disturb(blinks, r, 0) ELSE blinks

\* _on_led_control(route_id, message) with status = message.get('status',
\* 'OFF'): if 'ON' set_led(route_id, True), elif 'OFF' set_led(route_id,
\* False), elif 'BLINK' blink_led(route_id, 2.0, 0.5); no else branch
OnLedControl(r, status) ==
    CASE status = "ON" ->
           /\ LET w == SetLed(led_states, pin, r, TRUE)
              IN  led_states' = w.led /\ pin' = w.pin
           /\ blinks' = IF r \in Routes THEN Disturb(blinks, r, 0) ELSE blinks
      [] status = "OFF" ->
           /\ LET w == SetLed(led_states, pin, r, FALSE)
              IN  led_states' = w.led /\ pin' = w.pin
           /\ blinks' = IF r \in Routes THEN Disturb(blinks, r, 0) ELSE blinks
      [] status = "BLINK" ->
           /\ blinks' = Append(blinks, BlinkThread(r, DefaultBlink, 0))
           /\ UNCHANGED <<led_states, pin>>
      [] OTHER -> UNCHANGED <<led_states, pin, blinks>>

\* _on_message for a topic under device/led/<STOP_ID>/ with a payload
\* {"status": status}, then _on_led_control(route_id, message): the network
\* thread delivers it while the connection is up.
LedControl(r, status) ==
    /\ loop
    /\ tstate = "up"
    /\ pcNet = "idle"
    /\ "led_control" \in DOMAIN message_callbacks
    /\ message_callbacks["led_control"] = "_on_led_control"
    /\ nCmds < MaxCommands
    /\ nCmds' = nCmds + 1
    /\ lastCmd' = [route |-> r, status |-> status]
    /\ OnLedControl(r, status)
    /\ UNCHANGED <<busLedVars, beeps, ledCalls, gpioAvailable, boot, initialized,
                   button_callbacks,
                   message_callbacks, button_states, last_button_press,
                   presses, nEdges, lastEdge>>
    /\ UNCHANGED <<sessVars, thrVars, obsVars, timeVars, routeVars>>

(* ------------------------- the blink workers --------------------------- *)

\* blink_worker on the stop: original_state = self.led_states.get(route_id,
\* False); start_time = time.time(); the first test of the while loop
BlinkStart(i) ==
    /\ variant = "stop"
    /\ blinks[i].pc = "new"
    /\ blinks' = [blinks EXCEPT ![i].pc = "on",
                                ![i].original = GetLedState(blinks[i].route),
                                ![i].before = <<GetLedState(blinks[i].route)>>,
                                ![i].clean = TRUE]
    /\ UNCHANGED <<busLedVars, beeps, ledCalls, gpioAvailable, boot, initialized,
                   button_callbacks, message_callbacks, button_states,
                   led_states, last_button_press, pin, presses, nEdges,
                   lastEdge, nCmds, lastCmd>>
    /\ UNCHANGED <<sessVars, thrVars, obsVars, timeVars, routeVars>>

\* self.set_led(route_id, True); time.sleep(interval)
BlinkOn(i) ==
    /\ variant = "stop"
    /\ blinks[i].pc = "on"
    /\ LET w == SetLed(led_states, pin, blinks[i].route, TRUE)
       IN  led_states' = w.led /\ pin' = w.pin
    /\ blinks' = [Disturb(blinks, blinks[i].route, i) EXCEPT ![i].pc = "off"]
    /\ UNCHANGED <<busLedVars, beeps, ledCalls, gpioAvailable, boot, initialized,
                   button_callbacks, message_callbacks, button_states,
                   last_button_press, presses, nEdges, lastEdge, nCmds,
                   lastCmd>>
    /\ UNCHANGED <<sessVars, thrVars, obsVars, timeVars, routeVars>>

\* self.set_led(route_id, False); time.sleep(interval); the while test: the
\* loop goes on (`again`) only while fewer cycles than Cycles have been made,
\* and ends sooner when the sleeps have overrun
BlinkOff(i, again) ==
    /\ variant = "stop"
    /\ blinks[i].pc = "off"
    /\ again => blinks[i].n + 1 < Cycles(blinks[i])
    /\ LET w == SetLed(led_states, pin, blinks[i].route, FALSE)
       IN  led_states' = w.led /\ pin' = w.pin
    /\ blinks' = [Disturb(blinks, blinks[i].route, i) EXCEPT
                     ![i].n = @ + 1,
                     ![i].pc = IF again THEN "on" ELSE "restore"]
    /\ UNCHANGED <<busLedVars, beeps, ledCalls, gpioAvailable, boot, initialized,
                   button_callbacks, message_callbacks, button_states,
                   last_button_press, presses, nEdges, lastEdge, nCmds,
                   lastCmd>>
    /\ UNCHANGED <<sessVars, thrVars, obsVars, timeVars, routeVars>>

\* the pattern's end with the LED switched off, whatever was captured
BlinkRestoreOff(i) ==
    /\ variant = "stop"
    /\ blinks[i].pc = "restore"
    /\ LET w == SetLed(led_states, pin, blinks[i].route, FALSE)
       IN  led_states' = w.led /\ pin' = w.pin
    /\ blinks' = [Disturb(blinks, blinks[i].route, i) EXCEPT ![i].pc = "done"]
    /\ UNCHANGED <<busLedVars, beeps, ledCalls, gpioAvailable, boot, initialized,
                   button_callbacks, message_callbacks, button_states,
                   last_button_press, presses, nEdges, lastEdge, nCmds,
                   lastCmd>>
    /\ UNCHANGED <<sessVars, thrVars, obsVars, timeVars, routeVars>>

\* self.set_led(route_id, original_state)
BlinkRestore(i) ==
    /\ variant = "stop"
    /\ blinks[i].pc = "restore"
    /\ LET w == SetLed(led_states, pin, blinks[i].route, blinks[i].original)
       IN  led_states' = w.led /\ pin' = w.pin
    /\ blinks' = [Disturb(blinks, blinks[i].route, i) EXCEPT ![i].pc = "done"]
    /\ UNCHANGED <<busLedVars, beeps, ledCalls, gpioAvailable, boot, initialized,
                   button_callbacks, message_callbacks, button_states,
                   last_button_press, presses, nEdges, lastEdge, nCmds,
                   lastCmd>>
    /\ UNCHANGED <<sessVars, thrVars, obsVars, timeVars, routeVars>>

(* ------------------- the bus's GPIOController and LEDs ------------------ *)

\* the bus's GPIOController.initialize(): with the mock it returns at once;
\* with RPi.GPIO both LED pins and the buzzer pin are driven LOW
BusGpioInitialize ==
    /\ variant = "bus"
    /\ boot = "new"
    /\ boot' = "gpio"
    /\ IF gpioAvailable
       THEN /\ pin' = Put(Put(Put(pin, "red", FALSE), "green", FALSE),
                          "buzzer", FALSE)
            /\ initialized' = TRUE
       ELSE UNCHANGED <<pin, initialized>>
    /\ UNCHANGED <<busLedVars, beeps, ledCalls, gpioAvailable, button_callbacks,
                   message_callbacks, button_states, led_states,
                   last_button_press, presses, blinks, nEdges, lastEdge,
                   nCmds, lastCmd>>
    /\ UNCHANGED <<sessVars, thrVars, obsVars, timeVars, routeVars>>

\* the bus's set_led(red=False, green=False): under the lock both states are
\* assigned, and with RPi.GPIO both pins driven
BusSetLed(red, green) ==
    /\ led_red_state' = red
    /\ led_green_state' = green
    /\ pin' = IF gpioAvailable /\ ~CleanedUp
              THEN Put(Put(pin, "red", red), "green", green)
              ELSE pin

\* BusDevice.start(), once connect() has returned True:
\* self.gpio.set_led(green=True)
BusReady ==
    /\ variant = "bus"
    /\ boot = "gpio"
    /\ pcMain = "idle"
    /\ call.result = "ok"
    /\ boot' = "ready"
    /\ BusSetLed(FALSE, TRUE)
    /\ blinks' = Disturb(blinks, BusLeds, 0)
    /\ UNCHANGED <<beeps, ledCalls, gpioAvailable, initialized, button_callbacks,
                   message_callbacks, button_states, led_states,
                   last_button_press, presses, nEdges, lastEdge, nCmds,
                   lastCmd>>
    /\ UNCHANGED <<sessVars, thrVars, obsVars, timeVars, routeVars>>

\* _worker of the bus's blink_led: end_time = time.time() + duration; the
\* first test of the while loop
BusBlinkStart(i) ==
    /\ variant = "bus"
    /\ blinks[i].pc = "new"
    /\ blinks' = [blinks EXCEPT ![i].pc = "on",
                                ![i].before = <<led_red_state, led_green_state>>,
                                ![i].clean = TRUE]
    /\ UNCHANGED <<busLedVars, beeps, ledCalls, gpioAvailable, boot, initialized,
                   button_callbacks, message_callbacks, button_states,
                   led_states, last_button_press, pin, presses, nEdges,
                   lastEdge, nCmds, lastCmd>>
    /\ UNCHANGED <<sessVars, thrVars, obsVars, timeVars, routeVars>>

\* if color == "red": self.set_led(red=True) elif color == "green":
\* self.set_led(green=True); time.sleep(interval)
BusBlinkOn(i) ==
    /\ variant = "bus"
    /\ blinks[i].pc = "on"
    /\ CASE blinks[i].color = "red" -> BusSetLed(TRUE, FALSE)
         [] blinks[i].color = "green" -> BusSetLed(FALSE, TRUE)
         [] OTHER -> UNCHANGED <<busLedVars, pin>>
    /\ blinks' = [Disturb(blinks, BusLeds, i) EXCEPT
                     ![i].pc = IF CleanedUp THEN "dead" ELSE "off"]
    /\ UNCHANGED <<beeps, ledCalls, gpioAvailable, boot, initialized, button_callbacks,
                   message_callbacks, button_states, led_states,
                   last_button_press, presses, nEdges, lastEdge, nCmds,
                   lastCmd>>
    /\ UNCHANGED <<sessVars, thrVars, obsVars, timeVars, routeVars>>

\* self.set_led(False, False); time.sleep(interval); the while test, after
\* which the worker returns
BusBlinkOff(i, again) ==
    /\ variant = "bus"
    /\ blinks[i].pc = "off"
    /\ again => blinks[i].n + 1 < Cycles(blinks[i])
    /\ BusSetLed(FALSE, FALSE)
    /\ blinks' = [Disturb(blinks, BusLeds, i) EXCEPT
                     ![i].n = @ + 1,
                     ![i].pc = IF CleanedUp THEN "dead"
                               ELSE IF again THEN "on" ELSE "done"]
    /\ UNCHANGED <<beeps, ledCalls, gpioAvailable, boot, initialized, button_callbacks,
                   message_callbacks, button_states, led_states,
                   last_button_press, presses, nEdges, lastEdge, nCmds,
                   lastCmd>>
    /\ UNCHANGED <<sessVars, thrVars, obsVars, timeVars, routeVars>>

(* ------------------------------ shutdown -------------------------------- *)

\* BusStopSystem.shutdown(), after mqtt_client.disconnect() has returned:
\* gpio_controller.cleanup(), which with the mock or uninitialized returns
\* at once and otherwise switches every LED off and calls GPIO.cleanup().
\* Nothing here signals or joins a blink worker.
StopShutdown ==
    /\ variant = "stop"
    /\ boot \notin {"new", "down"}
    /\ pcMain = "idle"
    /\ dcall.done
    /\ boot' = "down"
    /\ IF gpioAvailable /\ initialized
       THEN /\ led_states' = [r \in Routes |-> FALSE]
            /\ pin' = [r \in Routes |-> FALSE]
            /\ blinks' = Disturb(Disturb(blinks, "1", 0), "2", 0)
       ELSE UNCHANGED <<led_states, pin, blinks>>
    /\ UNCHANGED <<busLedVars, beeps, ledCalls, gpioAvailable, initialized,
                   button_callbacks, message_callbacks, button_states,
                   last_button_press, presses, nEdges, lastEdge, nCmds,
                   lastCmd>>
    /\ UNCHANGED <<sessVars, thrVars, obsVars, timeVars, routeVars>>

\* BusDevice.shutdown(), after mqtt.disconnect() has returned:
\* self.gpio.cleanup(), which calls GPIO.cleanup() with RPi.GPIO initialized
\* and releases the pins. Nothing here signals or joins a blink or beep
\* worker.
BusShutdown ==
    /\ variant = "bus"
    /\ boot \notin {"new", "cleanup", "down"}
    /\ pcMain = "idle"
    /\ dcall.done
    /\ boot' = "cleanup"
    /\ pin' = IF gpioAvailable /\ initialized
              THEN Put(Put(Put(pin, "red", FALSE), "green", FALSE),
                       "buzzer", FALSE)
              ELSE pin
    /\ UNCHANGED <<busLedVars, beeps, ledCalls, gpioAvailable, initialized,
                   button_callbacks, message_callbacks, button_states,
                   led_states, last_button_press, presses, blinks, nEdges,
                   lastEdge, nCmds, lastCmd>>
    /\ UNCHANGED <<sessVars, thrVars, obsVars, timeVars, routeVars>>

\* BusDevice.shutdown(), its last statement: self.gpio.set_led(False, False),
\* after cleanup(): the states are assigned and, with RPi.GPIO, GPIO.output
\* is called on the released pins and raises out of shutdown()
BusShutdownLedsOff ==
    /\ variant = "bus"
    /\ boot = "cleanup"
    /\ boot' = "down"
    /\ BusSetLed(FALSE, FALSE)
    /\ blinks' = Disturb(blinks, BusLeds, 0)
    /\ UNCHANGED <<beeps, ledCalls, gpioAvailable, initialized,
                   button_callbacks, message_callbacks, button_states,
                   led_states, last_button_press, presses, nEdges, lastEdge,
                   nCmds, lastCmd>>
    /\ UNCHANGED <<sessVars, thrVars, obsVars, timeVars, routeVars>>

(* ------------------------- the bus's buzzer ----------------------------- *)

\* _on_route_call on the bus: beep(duration=0.15, repeats=3); the duration in
\* units of 0.05 s
RouteCallBeep == [duration |-> 3, repeats |-> 3]

\* beep(duration, repeats) starts a daemon thread: for _ in range(repeats).
\* The worker is at pc "high" (about to switch the buzzer on), "low" (about
\* to switch it off) or "done"; k is the number of pulses completed; highs
\* and lows count its "Beep ON" and "Beep OFF" steps.
BeepThread(burst) ==
    [duration |-> burst.duration, repeats |-> burst.repeats,
     pc |-> IF burst.repeats > 0 THEN "high" ELSE "done", k |-> 0,
     highs |-> 0, lows |-> 0]

BeepIds == 1 .. Len(beeps)

\* if GPIO_AVAILABLE: GPIO.output(Config.BUZZER_PIN, GPIO.HIGH);
\* logger.debug("Beep ON"); time.sleep(duration)
BeepOn(i) ==
    /\ variant = "bus"
    /\ beeps[i].pc = "high"
    /\ pin' = IF gpioAvailable /\ ~CleanedUp
              THEN Put(pin, "buzzer", TRUE) ELSE pin
    /\ beeps' = IF CleanedUp
                THEN [beeps EXCEPT ![i].pc = "dead"]
                ELSE [beeps EXCEPT ![i].pc = "low", ![i].highs = @ + 1]
    /\ UNCHANGED <<busLedVars, ledCalls, gpioAvailable, boot, initialized,
                   button_callbacks, message_callbacks, button_states,
                   led_states, last_button_press, presses, blinks, nEdges,
                   lastEdge, nCmds, lastCmd>>
    /\ UNCHANGED <<sessVars, thrVars, obsVars, timeVars, routeVars>>

\* the pulse's end without the write of LOW
BeepOffUnwritten(i) ==
    /\ variant = "bus"
    /\ beeps[i].pc = "low"
    /\ beeps' = [beeps EXCEPT
                    ![i].k = @ + 1,
                    ![i].pc = IF beeps[i].k + 1 < beeps[i].repeats
                              THEN "high" ELSE "done"]
    /\ UNCHANGED <<busLedVars, ledCalls, gpioAvailable, boot, initialized,
                   button_callbacks, message_callbacks, button_states,
                   led_states, last_button_press, pin, presses, blinks,
                   nEdges, lastEdge, nCmds, lastCmd>>
    /\ UNCHANGED <<sessVars, thrVars, obsVars, timeVars, routeVars>>

\* if GPIO_AVAILABLE: GPIO.output(Config.BUZZER_PIN, GPIO.LOW);
\* logger.debug("Beep OFF"); time.sleep(0.05); the next iteration of the for
\* loop, or its end
BeepOff(i) ==
    /\ variant = "bus"
    /\ beeps[i].pc = "low"
    /\ pin' = IF gpioAvailable /\ ~CleanedUp
              THEN Put(pin, "buzzer", FALSE) ELSE pin
    /\ beeps' = IF CleanedUp
                THEN [beeps EXCEPT ![i].pc = "dead"]
                ELSE [beeps EXCEPT
                         ![i].lows = @ + 1,
                         ![i].k = @ + 1,
                         ![i].pc = IF beeps[i].k + 1 < beeps[i].repeats
                                   THEN "high" ELSE "done"]
    /\ UNCHANGED <<busLedVars, ledCalls, gpioAvailable, boot, initialized,
                   button_callbacks, message_callbacks, button_states,
                   led_states, last_button_press, presses, blinks, nEdges,
                   lastEdge, nCmds, lastCmd>>
    /\ UNCHANGED <<sessVars, thrVars, obsVars, timeVars, routeVars>>

(* ----------------- MQTTClient._on_message (bus side) ------------------- *)

\* inbound messages delivered in one run
MaxMessages == 2

\* Config.ROUTE_ID when the environment sets none
DefaultRoute == "100"
RouteIds == {DefaultRoute, "200"}
StopIds == {STOP_ID, "STOP2", ""}

\* the topics a publisher may use: button presses of every stop and route,
\* the health topic, and topics none of the bus's filters matches
Topics ==
    {<<"device", "button", st, r>> : st \in StopIds, r \in RouteIds}
        \cup {SystemHealthTopic,
              <<"device", "button", STOP_ID>>,
              <<"device", "button", STOP_ID, DefaultRoute, "x">>,
              <<"system", "health", "x">>,
              StatusTopic("bus")}

\* payloads: a JSON document and a text that is none
Payloads == {[text |-> "{\"stopId\":1}", json |-> TRUE, utf8 |-> TRUE],
             [text |-> "ping", json |-> FALSE, utf8 |-> TRUE]}

\* a payload that is no JSON document
NoText == [text |-> "ping", json |-> FALSE, utf8 |-> TRUE]

\* a payload whose bytes are no UTF-8 text: msg.payload.decode() raises
BadBytes == [text |-> "\\xff", json |-> FALSE, utf8 |-> FALSE,
             status |-> "(none)"]

\* a JSON document that is no object: message.get raises AttributeError
NotAnObject == [text |-> "7", json |-> TRUE, utf8 |-> TRUE,
                status |-> "(not a dict)"]

\* no callable
NoHandler == ""

\* a callback that raises when it is called
Raising == "raising"

\* the event types each device dispatches and the handler its main.py
\* registers for each; a caller may also register another handler that
\* returns normally ("other") and one that raises
OwnHandlers(v) ==
    IF v = "bus"
    THEN [route_call |-> "_on_route_call",
          system_health |-> "_on_system_health"]
    ELSE [led_control |-> "_on_led_control",
          system_health |-> "_on_system_health"]

NoRegistration == [event |-> "", callback |-> NoHandler]

\* try: payload = json.loads(payload_raw)
\* except json.JSONDecodeError: payload = payload_raw
Decode(p) == IF p.json THEN [kind |-> "object", text |-> p.text]
             ELSE [kind |-> "string", text |-> p.text]

NoPayload == [kind |-> "none", text |-> ""]
NoMessage == [topic |-> <<>>, payload |-> NoPayload]
NoDispatch == [handler |-> "none", stop_id |-> "", route_id |-> "",
               payload |-> NoPayload]

\* topic.startswith("device/button/"): the first two levels, and a third
\* (possibly empty) after the second "/"
IsButtonTopic(topic) ==
    Len(topic) >= 3 /\ topic[1] = "device" /\ topic[2] = "button"

\* the comparison with Config.ROUTE_ID left out
DispatchForAnyRoute(topic, payload) ==
    IF IsButtonTopic(topic)
    THEN IF Len(topic) >= 4 /\ "route_call" \in DOMAIN message_callbacks
         THEN [handler |-> "route_call", stop_id |-> topic[Len(topic) - 1],
               route_id |-> topic[Len(topic)], payload |-> payload]
         ELSE NoDispatch
    ELSE IF topic = SystemHealthTopic /\ "system_health" \in DOMAIN message_callbacks
         THEN [handler |-> "system_health", stop_id |-> "", route_id |-> "",
               payload |-> payload]
         ELSE NoDispatch

\* _on_message, from the first if: parts = topic.split("/");
\* route_id = parts[-1]; stop_id = parts[-2]; the route_call callback for the
\* configured route, the system_health callback for the health topic
DispatchAt(route, callbacks, topic, payload) ==
    IF IsButtonTopic(topic)
    THEN IF /\ Len(topic) >= 4
            /\ topic[Len(topic)] = route
            /\ "route_call" \in DOMAIN callbacks
         THEN [handler |-> "route_call", stop_id |-> topic[Len(topic) - 1],
               route_id |-> topic[Len(topic)], payload |-> payload]
         ELSE NoDispatch
    ELSE IF topic = SystemHealthTopic /\ "system_health" \in DOMAIN callbacks
         THEN [handler |-> "system_health", stop_id |-> "", route_id |-> "",
               payload |-> payload]
         ELSE NoDispatch

\* _on_message of this device, with its Config.ROUTE_ID and its callbacks
Dispatch(topic, payload) ==
    DispatchAt(ROUTE_ID, message_callbacks, topic, payload)

\* BusDevice.initialize(), after mqtt.initialize():
\* register_callback("route_call", ...); register_callback("system_health", ...)
RegisterCallbacks ==
    /\ variant = "bus"
    /\ client
    /\ message_callbacks = EmptyDict
    /\ message_callbacks' = Put(Put(message_callbacks,
                                    "route_call", "_on_route_call"),
                                "system_health", "_on_system_health")
    /\ lastReg' = [event |-> "system_health", callback |-> "_on_system_health"]
    /\ UNCHANGED <<busLedVars, beeps, ledCalls, gpioAvailable, boot, initialized,
                   button_callbacks,
                   button_states, led_states, last_button_press, pin, presses,
                   blinks, nEdges, lastEdge, nCmds, lastCmd>>
    /\ UNCHANGED <<sessVars, thrVars, obsVars, timeVars, msgVars>>

\* _on_message(client, userdata, msg) on the bus: the network thread delivers
\* a message whose topic one of the session's subscriptions matches; the
\* route_call callback is _on_route_call, which starts the red blink and
\* the beep; the system_health callback only logs. msg.payload.decode() and
\* the callback are outside any try: what they raise leaves _on_message and
\* ends the network thread that called it.
OnMessage(topic, p) ==
    /\ variant = "bus"
    /\ loop
    /\ tstate = "up"
    /\ pcNet = "idle"
    /\ \E f \in subs : Matches(topic, f)
    /\ nMsgs < MaxMessages
    /\ nMsgs' = nMsgs + 1
    /\ IF ~p.utf8
       THEN /\ lastMsg' = [topic |-> topic, payload |-> NoPayload]
            /\ dispatched' = NoDispatch
            /\ invoked' = NoHandler
            /\ pcNet' = "crashed"
            /\ UNCHANGED <<blinks, beeps>>
       ELSE LET d == Dispatch(topic, Decode(p))
                h == IF d.handler = "none" THEN NoHandler
                     ELSE message_callbacks[d.handler]
            IN  /\ lastMsg' = [topic |-> topic, payload |-> Decode(p)]
                /\ dispatched' = d
                /\ invoked' = h
                /\ blinks' = IF h = "_on_route_call"
                             THEN Append(blinks,
                                         BusBlinkThread("red", RouteCallBlink))
                             ELSE blinks
                /\ beeps' = IF h = "_on_route_call"
                            THEN Append(beeps, BeepThread(RouteCallBeep))
                            ELSE beeps
                /\ pcNet' = IF h = Raising THEN "crashed" ELSE pcNet
    /\ UNCHANGED <<busLedVars, ledCalls, gpioAvailable, boot, initialized,
                   button_callbacks, message_callbacks, button_states,
                   led_states, last_button_press, pin, presses, nEdges,
                   lastEdge, nCmds, lastCmd>>
    /\ UNCHANGED <<sessVars, pcMain, polls, hb, hbWake, pcPub, obsVars,
                   timeVars, ROUTE_ID, lastReg>>

\* the dict assignment replaced by setdefault: a handler already registered
\* for the event type is kept
RegisterCallbackKeepFirst(event_type, callback) ==
    /\ pcMain = "idle"
    /\ message_callbacks' =
          IF event_type \in DOMAIN message_callbacks
          THEN message_callbacks
          ELSE Put(message_callbacks, event_type, callback)
    /\ lastReg' = [event |-> event_type, callback |-> callback]
    /\ UNCHANGED <<busLedVars, beeps, ledCalls, gpioAvailable, boot, initialized,
                   button_callbacks, button_states, led_states,
                   last_button_press, pin, presses, blinks, nEdges, lastEdge,
                   nCmds, lastCmd>>
    /\ UNCHANGED <<sessVars, thrVars, obsVars, timeVars, msgVars>>

\* register_callback(event_type, callback), in both variants:
\* self.message_callbacks[event_type] = callback
RegisterCallback(event_type, callback) ==
    /\ pcMain = "idle"
    /\ message_callbacks' = Put(message_callbacks, event_type, callback)
    /\ lastReg' = [event |-> event_type, callback |-> callback]
    /\ UNCHANGED <<busLedVars, beeps, ledCalls, gpioAvailable, boot, initialized,
                   button_callbacks, button_states, led_states,
                   last_button_press, pin, presses, blinks, nEdges, lastEdge,
                   nCmds, lastCmd>>
    /\ UNCHANGED <<sessVars, thrVars, obsVars, timeVars, msgVars>>

(* ----------------- MQTTClient._on_message (stop side) ------------------ *)

\* the topics a publisher may use: LED commands for every stop and route, the
\* health topic, and topics that have neither form
StopTopics ==
    {<<"device", "led", st, r>> : st \in StopIds, r \in Routes \cup {UnknownRoute}}
        \cup {SystemHealthTopic,
              <<"device", "led", STOP_ID>>,
              <<"device", "led", STOP_ID, "1", "x">>,
              <<"system", "health", "x">>,
              StatusTopic("stop")}

\* a JSON object without the 'status' key
Missing == "(missing)"

\* payloads: JSON objects with each status and with none, and a text that is
\* no JSON document
StopPayloads ==
    {[text |-> "{\"status\":\"ON\"}", json |-> TRUE, utf8 |-> TRUE, status |-> "ON"],
     [text |-> "{\"status\":\"OFF\"}", json |-> TRUE, utf8 |-> TRUE, status |-> "OFF"],
     [text |-> "{\"status\":\"BLINK\"}", json |-> TRUE, utf8 |-> TRUE, status |-> "BLINK"],
     [text |-> "{\"status\":\"DIM\"}", json |-> TRUE, utf8 |-> TRUE, status |-> "DIM"],
     [text |-> "{}", json |-> TRUE, utf8 |-> TRUE, status |-> Missing],
     [text |-> "ON", json |-> FALSE, utf8 |-> TRUE, status |-> Missing]}

\* message.get('status'): no default for a payload without the key
StatusOfNoDefault(p) == p.status

\* message.get('status', 'OFF')
StatusOf(p) == IF p.status = Missing THEN "OFF" ELSE p.status

\* the prefix test without the stop id: topic.startswith("device/led/")
IsLedTopicOfAnyStop(topic) ==
    Len(topic) >= 3 /\ topic[1] = "device" /\ topic[2] = "led"

\* topic.startswith(f"device/led/{Config.STOP_ID}/"): the first three levels,
\* and a fourth (possibly empty) after the third "/"
IsLedTopic(topic) ==
    /\ Len(topic) >= 4
    /\ topic[1] = "device" /\ topic[2] = "led" /\ topic[3] = identity

\* _on_message on the stop: payload = json.loads(msg.payload.decode()) inside
\* the try, so a payload that does not parse raises and the except clause logs
\* it; otherwise route_id = topic.split('/')[-1] and the led_control callback
\* for a topic under the stop's LED prefix, the system_health callback for the
\* health topic
StopDispatch(topic, p) ==
    IF ~p.json
    THEN NoDispatch
    ELSE IF IsLedTopic(topic)
         THEN IF "led_control" \in DOMAIN message_callbacks
              THEN [handler |-> "led_control", stop_id |-> "",
                    route_id |-> topic[Len(topic)], payload |-> Decode(p)]
              ELSE NoDispatch
         ELSE IF topic = SystemHealthTopic /\ "system_health" \in DOMAIN message_callbacks
              THEN [handler |-> "system_health", stop_id |-> "", route_id |-> "",
                    payload |-> Decode(p)]
              ELSE NoDispatch

\* _on_message(client, userdata, msg) on the stop: the network thread hands
\* over a PUBLISH it has received; the led_control callback is
\* _on_led_control, the system_health callback only logs. The whole body is
\* inside try/except Exception: what decode(), json.loads or a callback
\* raises is logged there, and _on_led_control catches what it raises itself
\* (message.get on a payload that is no dict).
StopOnMessage(topic, p) ==
    /\ variant = "stop"
    /\ loop
    /\ tstate = "up"
    /\ pcNet = "idle"
    /\ nMsgs < MaxMessages
    /\ nMsgs' = nMsgs + 1
    /\ IF ~p.utf8
       THEN /\ lastMsg' = [topic |-> topic, payload |-> NoPayload]
            /\ dispatched' = NoDispatch
            /\ invoked' = NoHandler
            /\ UNCHANGED <<led_states, pin, blinks>>
       ELSE LET d == StopDispatch(topic, p)
                h == IF d.handler = "none" THEN NoHandler
                     ELSE message_callbacks[d.handler]
            IN  /\ lastMsg' = [topic |-> topic, payload |-> Decode(p)]
                /\ dispatched' = d
                /\ invoked' = h
                /\ IF d.handler = "led_control" /\ h = "_on_led_control"
                   THEN OnLedControl(d.route_id, StatusOf(p))
                   ELSE UNCHANGED <<led_states, pin, blinks>>
    /\ UNCHANGED <<busLedVars, beeps, ledCalls, gpioAvailable, boot, initialized,
                   button_callbacks,
                   message_callbacks, button_states, last_button_press,
                   presses, nEdges, lastEdge, nCmds, lastCmd>>
    /\ UNCHANGED <<sessVars, thrVars, obsVars, timeVars, ROUTE_ID, lastReg>>

(* --------------------------- specification ---------------------------- *)

\* MQTTClient.__init__()
InitSessionOf(identities) ==
    /\ identity \in identities
    /\ client = FALSE
    /\ is_connected = FALSE
    /\ running = FALSE
    /\ loop = FALSE
    /\ tstate = "none"
    /\ subs = {}
    /\ will = NoWill
    /\ pcMain = "idle"
    /\ pcNet = "idle"
    /\ polls = 0
    /\ hb = <<>>
    /\ hbWake = <<>>
    /\ pcPub = "idle"
    /\ wire = NoMsg
    /\ offlineCnt = 0
    /\ everConnected = FALSE
    /\ call = NoCall
    /\ dcall = NoDcall
    /\ preq = NoReq
    /\ nConnect = 0
    /\ nDisconnect = 0
    /\ beats = <<>>

\* MQTTClient.__init__() of a device whose identity is configured
InitSession == InitSessionOf({DefaultIdentity(variant)})

\* Config as the environment leaves it; no message delivered yet
InitRouting ==
    /\ ROUTE_ID = DefaultRoute
    /\ nMsgs = 0
    /\ lastMsg = NoMessage
    /\ dispatched = NoDispatch
    /\ invoked = NoHandler
    /\ lastReg = NoRegistration

\* GPIOController.__init__()
InitGpio ==
    /\ boot = "new"
    /\ initialized = FALSE
    /\ button_callbacks = {}
    /\ message_callbacks = EmptyDict
    /\ button_states = EmptyDict
    /\ led_states = EmptyDict
    /\ last_button_press = EmptyDict
    /\ pin = EmptyDict
    /\ led_red_state = FALSE
    /\ led_green_state = FALSE
    /\ beeps = <<>>
    /\ ledCalls = <<>>
    /\ presses = <<>>
    /\ blinks = <<>>
    /\ nEdges = 0
    /\ lastEdge = NoEdge
    /\ nCmds = 0
    /\ lastCmd = NoCmd

\* the session of either device, its GPIO side left alone
Init ==
    /\ variant \in Variants
    /\ InitSession
    /\ InitGpio
    /\ InitRouting
    /\ gpioAvailable = FALSE
    /\ now = Epoch

Next ==
    \/ Initialize
    \/ ConnectCall
    \/ ConnectPoll
    \/ ConnectTest
    \/ ConnectStartHeartbeat
    \/ ConnectPublishOnline
    \/ DisconnectCall
    \/ DisconnectJoin
    \/ DisconnectTest
    \/ DisconnectPublishOffline
    \/ DisconnectTeardown
    \/ \E rc \in ResultCodes : OnConnect(rc)
    \/ OnConnectSubscribe
    \/ \E rc \in ResultCodes : OnDisconnect(rc)
    \/ \E i \in HbIds : HbTestRunning(i)
    \/ \E i \in HbIds : HbTestConnected(i)
    \/ \E i \in HbIds : HbGuard(i)
    \/ \E i \in HbIds : HbPublish(i, FALSE)
    \/ \E i \in HbIds : HbWake(i, FALSE)
    \/ PublishRequest
    \/ \E r \in Routes : PublishSend(r)

Spec == Init /\ [][Next]_vars

\* connect() alone, with the wait loop at its full length
NextConnect ==
    \/ Initialize
    \/ ConnectCall
    \/ ConnectPollFull
    \/ ConnectTest
    \/ ConnectStartHeartbeat
    \/ ConnectPublishOnline
    \/ \E rc \in ResultCodes : OnConnect(rc)
    \/ OnConnectSubscribe
    \/ \E rc \in ResultCodes : OnDisconnect(rc)
    \/ \E i \in HbIds : HbTestRunning(i)
    \/ \E i \in HbIds : HbTestConnected(i)
    \/ \E i \in HbIds : HbGuard(i)
    \/ \E i \in HbIds : HbPublish(i, FALSE)
    \/ \E i \in HbIds : HbWake(i, FALSE)

SpecConnect == Init /\ [][NextConnect]_vars

\* the stop device, with RPi.GPIO or with the mock
InitStop ==
    /\ variant = "stop"
    /\ InitSession
    /\ InitGpio
    /\ InitRouting
    /\ gpioAvailable \in BOOLEAN
    /\ now = Epoch

\* GPIOController with its callbacks wired: the clock and the button edges
NextDebounce ==
    \/ GpioInitialize
    \/ (boot = "gpio" /\ Initialize)
    \/ SetupEventHandlers
    \/ Tick
    \/ \E r \in Routes : ButtonEdge(r)

SpecDebounce == InitStop /\ [][NextDebounce]_vars

\* from a button edge to the publish and the feedback pattern, with the
\* transport's callbacks in between
NextButton ==
    \/ GpioInitialize
    \/ (boot = "gpio" /\ Initialize)
    \/ SetupEventHandlers
    \/ (boot = "wired" /\ ConnectCall)
    \/ \E rc \in ResultCodes : OnConnect(rc)
    \/ OnConnectSubscribe
    \/ \E rc \in ResultCodes : OnDisconnect(rc)
    \/ \E r \in Routes : (nEdges < MaxPresses /\ ButtonEdge(r))
    \/ \E i \in PressIds : HandlerCall(i)
    \/ \E i \in PressIds : HandlerSend(i)
    \/ \E i \in PressIds : HandlerFeedback(i)

SpecButton == InitStop /\ [][NextButton]_vars

\* inbound LED control commands on a connected stop
NextLed ==
    \/ GpioInitialize
    \/ (boot = "gpio" /\ Initialize)
    \/ SetupEventHandlers
    \/ (boot = "wired" /\ ConnectCall)
    \/ \E rc \in ResultCodes : OnConnect(rc)
    \/ OnConnectSubscribe
    \/ \E rc \in ResultCodes : OnDisconnect(rc)
    \/ \E r \in Routes \cup {UnknownRoute}, status \in Statuses : LedControl(r, status)

SpecLed == InitStop /\ [][NextLed]_vars

\* seconds of 0.1 s the clock runs for where the heartbeat is timed
Horizon == 950

\* connect() has, at time 0, read is_connected True in its final test
InitHeartbeat ==
    /\ variant \in Variants
    /\ identity = DefaultIdentity(variant)
    /\ client = TRUE
    /\ is_connected = TRUE
    /\ running = TRUE
    /\ loop = TRUE
    /\ tstate = "up"
    /\ subs = Subscriptions(variant)
    /\ will = LastWill(variant)
    /\ pcMain = "c_hb"
    /\ pcNet = "idle"
    /\ polls = 0
    /\ hb = <<>>
    /\ hbWake = <<>>
    /\ pcPub = "idle"
    /\ wire = NoMsg
    /\ offlineCnt = 0
    /\ everConnected = TRUE
    /\ call = [NoCall EXCEPT !.seen = TRUE]
    /\ dcall = NoDcall
    /\ preq = NoReq
    /\ nConnect = 1
    /\ nDisconnect = 0
    /\ beats = <<>>
    /\ InitGpio
    /\ InitRouting
    /\ gpioAvailable = FALSE
    /\ now = 0

\* no thread has a step to take before the clock moves on
Asleep ==
    /\ pcMain = "idle"
    /\ \A i \in HbIds : hb[i] = "dead" \/ (hb[i] = "sleep" /\ now < hbWake[i])

\* the heartbeat thread of a session that stays Connected, against the clock
NextHeartbeat ==
    \/ ConnectStartHeartbeat
    \/ ConnectPublishOnline
    \/ \E i \in HbIds : HbTestRunning(i)
    \/ \E i \in HbIds : HbTestConnected(i)
    \/ \E i \in HbIds : HbGuard(i)
    \/ \E i \in HbIds : HbPublish(i, TRUE)
    \/ \E i \in HbIds : HbWake(i, TRUE)
    \/ (Asleep /\ TickBefore(Horizon))

SpecHeartbeat == InitHeartbeat /\ [][NextHeartbeat]_vars

\* the bus, with the route the environment configures
InitBus ==
    /\ variant = "bus"
    /\ InitSession
    /\ InitGpio
    /\ ROUTE_ID \in RouteIds
    /\ nMsgs = 0
    /\ lastMsg = NoMessage
    /\ dispatched = NoDispatch
    /\ invoked = NoHandler
    /\ lastReg = NoRegistration
    /\ gpioAvailable = FALSE
    /\ now = Epoch

\* inbound messages on the bus
NextRoute ==
    \/ Initialize
    \/ RegisterCallbacks
    \/ (message_callbacks # EmptyDict /\ ConnectCall)
    \/ \E rc \in ResultCodes : OnConnect(rc)
    \/ OnConnectSubscribe
    \/ \E rc \in ResultCodes : OnDisconnect(rc)
    \/ \E topic \in Topics, p \in Payloads : OnMessage(topic, p)

SpecRoute == InitBus /\ [][NextRoute]_vars

\* inbound messages on the stop
NextStopRoute ==
    \/ GpioInitialize
    \/ (boot = "gpio" /\ Initialize)
    \/ SetupEventHandlers
    \/ (boot = "wired" /\ ConnectCall)
    \/ \E rc \in ResultCodes : OnConnect(rc)
    \/ OnConnectSubscribe
    \/ \E rc \in ResultCodes : OnDisconnect(rc)
    \/ \E topic \in StopTopics, p \in StopPayloads : StopOnMessage(topic, p)

SpecStopRoute == InitStop /\ [][NextStopRoute]_vars

\* either device, with RPi.GPIO or with the mock
InitBlink ==
    /\ variant \in Variants
    /\ InitSession
    /\ InitGpio
    /\ InitRouting
    /\ gpioAvailable \in BOOLEAN
    /\ now = Epoch

\* either device from its start to the blink patterns its handlers ask for:
\* LED control commands on the stop, route calls on the bus
NextBlink ==
    \/ (variant = "stop" /\ GpioInitialize)
    \/ BusGpioInitialize
    \/ (boot = "gpio" /\ Initialize)
    \/ (variant = "stop" /\ SetupEventHandlers)
    \/ RegisterCallbacks
    \/ (message_callbacks # EmptyDict /\ ConnectCall)
    \/ ConnectPoll
    \/ ConnectTest
    \/ ConnectStartHeartbeat
    \/ ConnectPublishOnline
    \/ OnConnect(0)
    \/ OnConnectSubscribe
    \/ BusReady
    \/ \E r \in Routes, status \in {"ON", "BLINK"} : LedControl(r, status)
    \/ \E i \in BlinkIds : BlinkStart(i)
    \/ \E i \in BlinkIds : BlinkOn(i)
    \/ \E i \in BlinkIds, again \in BOOLEAN : BlinkOff(i, again)
    \/ \E i \in BlinkIds : BlinkRestore(i)
    \/ \E st \in StopIds : OnMessage(<<"device", "button", st, ROUTE_ID>>, NoText)
    \/ \E i \in BlinkIds : BusBlinkStart(i)
    \/ \E i \in BlinkIds : BusBlinkOn(i)
    \/ \E i \in BlinkIds, again \in BOOLEAN : BusBlinkOff(i, again)

SpecBlink == InitBlink /\ [][NextBlink]_vars

\* the bus, with RPi.GPIO or with the mock
InitBeep ==
    /\ variant = "bus"
    /\ InitSession
    /\ InitGpio
    /\ InitRouting
    /\ gpioAvailable \in BOOLEAN
    /\ now = Epoch

\* the bus from its start to the beeps its route calls ask for
NextBeep ==
    \/ BusGpioInitialize
    \/ (boot = "gpio" /\ Initialize)
    \/ RegisterCallbacks
    \/ (message_callbacks # EmptyDict /\ ConnectCall)
    \/ OnConnect(0)
    \/ OnConnectSubscribe
    \/ \E st \in StopIds : OnMessage(<<"device", "button", st, ROUTE_ID>>, NoText)
    \/ \E i \in BeepIds : BeepOn(i)
    \/ \E i \in BeepIds : BeepOff(i)

SpecBeep == InitBeep /\ [][NextBeep]_vars

(* ------------------------------ claims -------------------------------- *)

\* C1: no publish other than the last-will is handed to the transport while
\* the session is not Connected: every message given to client.publish was
\* given while self.is_connected held.
NoPublishWhileNotConnected == wire.kind # "none" => wire.conn

\* C5, as stated: once disconnect() has returned, an "offline" status has been
\* published if and only if the session had been Connected at some earlier
\* point, a session that connected and then dropped included.
OfflineIffEverConnected == dcall.done => (offlineCnt > 0 <=> dcall.ever)

\* C5, amended: disconnect() publishes the retained "offline" status exactly
\* when its own test finds the session Connected; a session that was never
\* Connected gets none, and neither does one that connected and then dropped.
OfflineIffConnectedAtDisconnect ==
    /\ [](dcall.done => (dcall.pub <=> dcall.saw))
    /\ [](offlineCnt > 0 => everConnected)
    /\ [][offlineCnt' # offlineCnt =>
            /\ offlineCnt' = offlineCnt + 1
            /\ dcall.saw
            /\ wire'.kind = "offline"
            /\ wire'.topic = StatusTopic(variant)
            /\ wire'.retain]_vars

\* C5 witness: a disconnect() that found the session Connected has returned,
\* its "offline" status the last message on the wire.
OfflinePublishedByDisconnect ==
    dcall.done /\ dcall.pub /\ wire.kind = "offline" /\ wire.retain

\* C9: a publish request made while the session is not Connected hands nothing
\* to the transport and (stop side) returns False; nothing is kept for later:
\* every message handed over belongs to a request that passed the test.
DroppedWhenNotConnected ==
    /\ [](preq.handed + (IF pcPub = "send" THEN 1 ELSE 0) = preq.passed)
    /\ [](wire.kind \in {"location", "button"} => preq.handed > 0)
    /\ [][(preq'.n # preq.n /\ ~is_connected) =>
            /\ pcPub' = "idle"
            /\ wire' = wire
            /\ preq'.handed = preq.handed
            /\ preq'.passed = preq.passed
            /\ (variant = "stop" => preq'.result = "fail")]_vars

\* C9 witness: a request was dropped while the session was not Connected, the
\* session has become Connected since, and nothing of it has been sent.
DroppedRequestStaysDropped ==
    /\ preq.n = 1
    /\ preq.passed = 0
    /\ preq.handed = 0
    /\ pcPub = "idle"
    /\ is_connected
    /\ wire.kind \notin {"location", "button"}

\* C10, as stated: connect() returns success if and only if a poll of the
\* bounded wait has observed the rc=0 acknowledgment (has read is_connected
\* True); on failure it has published no "online" and started no heartbeat.
ConnectSuccessIffAckObserved ==
    call.result # "none" =>
        /\ (call.result = "ok" <=> call.seen)
        /\ (call.result = "fail" => ~call.online /\ ~call.started)

\* C10, amended: connect() returns success exactly when self.is_connected is
\* True at the test it makes once the wait loop has ended (after the first
\* poll that reads it True, or after 100 polls); a success follows an rc=0
\* acknowledgment, a heartbeat start and an "online" publish; a failure has
\* published no "online" and started no heartbeat.
ConnectSuccessIffConnectedAtTest ==
    /\ [](polls <= CONNECT_POLLS)
    /\ [](call.result = "ok" =>
            call.seen /\ call.started /\ call.online /\ everConnected)
    /\ [](call.result = "fail" => ~call.started /\ ~call.online)
    /\ [](call.started => call.seen)
    /\ [][(pcMain = "c_test" /\ pcMain' \in {"c_hb", "idle"}) =>
            /\ (pcMain' = "c_hb" <=> is_connected)
            /\ (pcMain' = "idle" <=> call'.result = "fail")]_vars
    /\ [][(call.result # "ok" /\ call'.result = "ok") =>
            pcMain = "c_online" /\ wire'.kind = "online" /\ wire'.retain]_vars

\* C10 witness: the acknowledgment arrived while connect() was waiting, and
\* connect() has returned success.
ConnectReturnedSuccessAfterWaiting ==
    call.result = "ok" /\ polls > 0 /\ call.online /\ call.started

\* C2: every accepted button edge gets exactly one call of
\* publish_button_press, and once its handler is through, the one blink it
\* has started is the confirmation pattern (1.0 s, 0.2 s) if that call
\* returned True and the error pattern (2.0 s, 0.1 s) if it returned False.
OnePublishAttemptPerAcceptedEdge ==
    \A i \in PressIds :
        /\ presses[i].pc # "nocb"
        /\ presses[i].calls <= 1
        /\ presses[i].pc \in {"send", "blink", "done"} => presses[i].calls = 1
        /\ presses[i].pc = "done" =>
              /\ presses[i].result \in {"ok", "fail"}
              /\ Cardinality({b \in 1 .. Len(blinks) : blinks[b].by = i}) = 1
              /\ \A b \in 1 .. Len(blinks) :
                    blinks[b].by = i =>
                       /\ blinks[b].route = presses[i].route
                       /\ presses[i].result = "ok" =>
                             blinks[b].duration = 10 /\ blinks[b].interval = 2
                       /\ presses[i].result = "fail" =>
                             blinks[b].duration = 20 /\ blinks[b].interval = 1

\* C3: no two accepted edges on one channel are less than the debounce window
\* apart; of a burst inside the window after an accepted edge, none is
\* accepted again.
AcceptedEdgesApart ==
    \A i, j \in PressIds :
        (i < j /\ presses[i].route = presses[j].route) =>
            presses[j].at - presses[i].at >= DEBOUNCE_TIME

\* C3 witness: a channel with two accepted edges, and an edge rejected on it
\* in the window after the first.
BurstWithOneAccepted ==
    \E i, j \in PressIds :
        /\ i < j
        /\ presses[i].route = presses[j].route
        /\ nEdges = 3
        /\ Len(presses) = 2

\* C4: an edge on channel c at time now is accepted iff
\* now - lastEdgeTimestamp[c] >= debounceWindow; accepted, the timestamp of c
\* (and of c alone) becomes now, the channel is pressed and its LED on;
\* rejected, nothing changes.
EdgeAcceptedIffOutsideWindow ==
    [][nEdges' # nEdges =>
         \A c \in Routes :
            lastEdge'.route = c =>
             /\ lastEdge'.at = now
             /\ lastEdge'.accepted <=>
                   now - Get(last_button_press, c, 0) >= DEBOUNCE_TIME
             /\ lastEdge'.accepted =>
                   /\ last_button_press' = Put(last_button_press, c, now)
                   /\ Len(presses') = Len(presses) + 1
                   /\ button_states'[c]
                   /\ GetLedState(c)'
             /\ ~lastEdge'.accepted =>
                   UNCHANGED <<last_button_press, presses, button_states,
                               led_states, pin>>]_vars

\* C4 witness: an edge accepted exactly one debounce window after the
\* channel's previous accepted edge.
EdgeAcceptedAtWindowEnd ==
    /\ lastEdge.accepted
    /\ \E i \in PressIds :
          /\ presses[i].route = lastEdge.route
          /\ lastEdge.at - presses[i].at = DEBOUNCE_TIME

\* C7: when an LED control command with status ON for a configured channel
\* has been handled, get_led_state of the channel reads True; with status OFF
\* it reads False.
LedFollowsControlCommand ==
    [][nCmds' # nCmds =>
         \A r \in Routes :
            lastCmd'.route = r =>
               /\ lastCmd'.status = "ON" => GetLedState(r)'
               /\ lastCmd'.status = "OFF" => ~GetLedState(r)']_vars

\* C7 witness: OFF handled after ON on a real channel: the state reads False
\* again.
LedOffAfterOn ==
    /\ nCmds = 2
    /\ lastCmd.status = "OFF"
    /\ lastCmd.route \in Routes
    /\ gpioAvailable
    /\ ~GetLedState(lastCmd.route)
    /\ \E r \in Routes : GetLedState(r)

\* C6, as stated: with a heartbeat interval of 30 s, a session Connected at
\* time 0 and Connected still at 95 s has had exactly three publishes from
\* its heartbeat thread, at 30 s, 60 s and 90 s.
ThreeHeartbeatsIn95Seconds ==
    (now = 950 /\ Asleep) => beats = <<300, 600, 900>>

\* C6, amended: the heartbeat thread publishes when it starts and then once
\* every interval: with an interval of 30 s, a session Connected at time 0
\* and Connected still at 95 s has had exactly four publishes from it, at
\* 0 s, 30 s, 60 s and 90 s.
HeartbeatAtStartAndEveryInterval ==
    Asleep =>
        /\ beats = [k \in 1 .. (now \div HEARTBEAT_INTERVAL) + 1 |->
                       (k - 1) * HEARTBEAT_INTERVAL]
        /\ now = 950 => beats = <<0, 300, 600, 900>>

\* C6 witness: 95 s have passed and the fourth publish has been made.
FourHeartbeatsAt95Seconds ==
    now = 950 /\ Len(beats) = 4 /\ beats[4] = 900 /\ wire.conn

\* C8: on the bus, a message on device/button/<stopId>/<routeId> whose routeId
\* is the configured route calls the route_call handler with the stopId of the
\* third level (routeId being the fourth); with another routeId no handler is
\* called; a message on the health topic calls the system_health handler; and
\* no delivery changes the session's state.
RoutedByTopicAndRoute ==
    [][nMsgs' # nMsgs =>
         /\ \A t \in Topics :
               (lastMsg'.topic = t /\ Len(t) = 4 /\ t[1] = "device"
                     /\ t[2] = "button") =>
                  IF t[4] = ROUTE_ID
                  THEN dispatched' = [handler |-> "route_call", stop_id |-> t[3],
                                      route_id |-> t[4],
                                      payload |-> lastMsg'.payload]
                  ELSE dispatched'.handler = "none"
         /\ lastMsg'.topic = <<"system", "health">> =>
               /\ dispatched'.handler = "system_health"
               /\ dispatched'.payload = lastMsg'.payload
         /\ UNCHANGED <<sessVars, thrVars, obsVars, ROUTE_ID>>]_vars

\* C8 witness: a press at another stop for the configured route, a route
\* other than the default, has reached the route_call handler.
RouteCallDispatched ==
    /\ ROUTE_ID = "200"
    /\ lastMsg.topic = <<"device", "button", "STOP2", "200">>
    /\ dispatched.handler = "route_call"
    /\ dispatched.stop_id = "STOP2"

\* C11: at the moment connect() returns True the session's inbound filters
\* are subscribed, the retained "online" status has been published and a
\* heartbeat thread is running, however the calling thread and the network
\* thread interleave.
SubscribedOnlineAndBeatingAtSuccess ==
    [][(call.result # "ok" /\ call'.result = "ok") =>
          /\ subs' = Subscriptions(variant)
          /\ wire'.kind = "online"
          /\ wire'.retain
          /\ \E i \in 1 .. Len(hb') : hb'[i] # "dead"]_vars

\* C12: every acknowledgement with rc 0, the first and each one after an
\* unexpected drop, is followed by the subscriptions, and from then on, for as
\* long as the session stays Connected and is not being shut down, a heartbeat
\* thread is alive to publish every period.
PostConnectSequenceAfterEveryAck ==
    (call.result = "ok" /\ pcMain = "idle" /\ pcNet = "idle"
        /\ is_connected /\ running) =>
       /\ subs = Subscriptions(variant)
       /\ \E i \in HbIds : hb[i] # "dead"

\* C13: is_connected becomes True only in the step that handles an
\* acknowledgement with rc 0 (the transport connection comes up with it);
\* subscriptions are issued only by that callback, so an acknowledgement with
\* a nonzero code leaves the session Disconnected and subscribes to nothing;
\* and whenever the transport connection ends through on_disconnect, with a
\* nonzero code or with code 0 (that is, not by a new call of connect()),
\* is_connected is False afterwards.
ConnectedOnlyByAcceptedAck ==
    /\ [][(~is_connected /\ is_connected') =>
             /\ loop
             /\ tstate = "pending" /\ tstate' = "up"
             /\ pcNet' = "subscribe"]_vars
    /\ [][(pcNet # "subscribe" /\ pcNet' = "subscribe") =>
             tstate' = "up" /\ is_connected']_vars
    /\ [][(subs' # subs /\ subs' # {}) =>
             pcNet = "subscribe" /\ subs' = Subscriptions(variant)]_vars
    /\ [][(tstate = "up" /\ tstate' # "up" /\ nConnect' = nConnect) =>
             ~is_connected']_vars

\* C13 witness: a session that was Connected, lost its connection and then
\* had the reconnect refused or left unanswered is Disconnected, without
\* subscriptions.
DisconnectedAfterDrop ==
    /\ everConnected
    /\ tstate = "pending"
    /\ ~is_connected
    /\ subs = {}
    /\ call.result = "ok"

\* C14: when disconnect() returns on a session its test found Connected,
\* is_connected is False, and stays so while the transport is stopped.
DisconnectedAfterDisconnect ==
    /\ [][(~dcall.done /\ dcall'.done /\ dcall'.saw) =>
             ~is_connected' /\ ~loop' /\ tstate' = "none"]_vars
    /\ []((dcall.done /\ dcall.saw /\ ~loop) => ~is_connected)

\* C14 witness: disconnect() has returned on a session that connect() had
\* brought up.
DisconnectReturnedOnConnected ==
    /\ dcall.done
    /\ dcall.saw
    /\ call.result = "ok"
    /\ ~is_connected
    /\ tstate = "none"

\* C15: disconnect() on a session that has never been Connected (never
\* initialized, or connect() failed or is still unanswered) goes from its
\* test straight to its return: nothing is published, the transport is left
\* as it is, and the call returns.
DisconnectNoOpWhenNeverConnected ==
    /\ [][(pcMain = "d_test" /\ pcMain' # pcMain /\ ~everConnected) =>
             /\ pcMain' = "idle"
             /\ dcall'.done /\ ~dcall'.pub /\ ~dcall'.saw
             /\ UNCHANGED <<wire, offlineCnt, loop, tstate, subs,
                            is_connected, client>>]_vars
    /\ []((dcall.done /\ ~dcall.ever) => ~dcall.pub /\ offlineCnt = 0)

\* C15 witness: disconnect() has returned on a session whose connect() had
\* failed: nothing was published and the network thread is still running.
DisconnectReturnedOnFailedConnect ==
    /\ dcall.done
    /\ ~dcall.ever
    /\ call.result = "fail"
    /\ client
    /\ loop
    /\ wire.kind = "none"

UnknownStatusChangesNothing ==
    [][(nCmds' # nCmds /\ lastCmd'.status \notin {"ON", "OFF", "BLINK"}) =>
          /\ UNCHANGED <<led_states, pin, blinks, button_states>>
          /\ nCmds' = nCmds + 1]_vars

\* C18 witness: a command with status DIM has been handled for a route whose
\* LED an earlier command had switched on, and the LED is still on.
DimCommandOnLitLed ==
    /\ nCmds = 2
    /\ lastCmd.status = "DIM"
    /\ lastCmd.route \in Routes
    /\ GetLedState(lastCmd.route)
    /\ blinks = <<>>

\* C17, as stated: a message whose topic has a handler and whose payload is
\* no JSON document reaches that handler with the payload's text as it came.
UnparseablePayloadStillRouted ==
    (nMsgs > 0 /\ lastMsg.payload.kind = "string") =>
       /\ (Len(lastMsg.topic) = 4 /\ lastMsg.topic[1] = "device"
              /\ lastMsg.topic[2] = "led" /\ lastMsg.topic[3] = STOP_ID) =>
             /\ dispatched.handler = "led_control"
             /\ dispatched.payload = lastMsg.payload
       /\ lastMsg.topic = <<"system", "health">> =>
             /\ dispatched.handler = "system_health"
             /\ dispatched.payload = lastMsg.payload

\* C19: on the stop, a message with a JSON payload on a topic under
\* device/led/<STOP_ID>/ calls the led_control handler with the topic's last
\* level as the route; one on exactly system/health calls the system_health
\* handler; one on any other topic, an LED topic of another stop included,
\* calls no handler and changes no LED, pin or blink thread; and only an ON or
\* OFF command for a configured route changes an LED.
StopRoutedByTopic ==
    [][(nMsgs' # nMsgs /\ lastMsg'.payload.kind = "object") =>
         /\ \A t \in StopTopics :
               lastMsg'.topic = t =>
                  IF Len(t) >= 4 /\ t[1] = "device" /\ t[2] = "led"
                        /\ t[3] = STOP_ID
                  THEN dispatched' = [handler |-> "led_control", stop_id |-> "",
                                      route_id |-> t[Len(t)],
                                      payload |-> lastMsg'.payload]
                  ELSE IF t = <<"system", "health">>
                  THEN /\ dispatched'.handler = "system_health"
                       /\ dispatched'.payload = lastMsg'.payload
                       /\ UNCHANGED <<led_states, pin, blinks>>
                  ELSE /\ dispatched' = NoDispatch
                       /\ UNCHANGED <<led_states, pin, blinks>>
         /\ \A r \in Routes :
               (led_states' # led_states /\ dispatched'.route_id = r) =>
                  \/ /\ lastMsg'.payload.text = "{\"status\":\"ON\"}"
                     /\ Get(led_states', r, FALSE)
                  \/ /\ lastMsg'.payload.text \in {"{\"status\":\"OFF\"}", "{}"}
                     /\ ~Get(led_states', r, FALSE)
         /\ dispatched'.route_id \notin Routes => led_states' = led_states
         /\ UNCHANGED <<sessVars, thrVars, obsVars, button_states>>]_vars

\* C19 witness: after an ON command for route 2 of this stop had lit its LED,
\* the same command addressed to another stop reached no handler and the LED
\* is still lit.
OtherStopsCommandIgnored ==
    /\ nMsgs = 2
    /\ lastMsg.topic = <<"device", "led", "STOP2", "2">>
    /\ lastMsg.payload.kind = "object"
    /\ dispatched = NoDispatch
    /\ Get(led_states, "2", FALSE)

\* C20, as stated: when a blink worker ends its pattern, no other thread has
\* written the channel since the worker began and no other pattern is in
\* progress on it, the LED state is the one the worker found when it began:
\* the route's LED on the stop, the red and the green LED on the bus.
BlinkRestoresOutputState ==
    [][\A i \in 1 .. MaxCommands + MaxMessages :
          (/\ i <= Len(blinks)
           /\ blinks[i].pc # "done"
           /\ blinks'[i].pc = "done"
           /\ blinks'[i].clean
           /\ \A j \in BlinkIds :
                 (j # i /\ blinks[j].route = blinks[i].route) =>
                    blinks[j].pc \in {"new", "done"}) =>
             blinks'[i].before =
                IF variant = "stop"
                THEN <<Get(led_states', blinks[i].route, FALSE)>>
                ELSE <<led_red_state', led_green_state'>>]_vars

\* C21: a beep thread asked for n pulses switches the buzzer on n times, each
\* time switching it off before the next; no step of it changes an LED state
\* or an LED pin; and once every beep thread has ended the buzzer pin is LOW,
\* however the threads' steps interleaved.
BeepPulsesThenLow ==
    /\ [](\A i \in BeepIds :
             /\ beeps[i].highs <= beeps[i].repeats
             /\ beeps[i].lows <= beeps[i].highs
             /\ beeps[i].highs <= beeps[i].lows + 1
             /\ beeps[i].pc = "done" =>
                   /\ beeps[i].highs = beeps[i].repeats
                   /\ beeps[i].lows = beeps[i].repeats)
    /\ []((beeps # <<>> /\ \A i \in BeepIds : beeps[i].pc = "done") =>
             ~Get(pin, "buzzer", FALSE))
    /\ [][(Len(beeps') = Len(beeps) /\ beeps' # beeps) =>
             /\ UNCHANGED <<led_red_state, led_green_state, led_states, blinks>>
             /\ Get(pin', "red", FALSE) = Get(pin, "red", FALSE)
             /\ Get(pin', "green", FALSE) = Get(pin, "green", FALSE)]_vars

\* C21 witness: with RPi.GPIO two route calls have each started a burst of
\* three pulses, both bursts have ended and the buzzer pin is LOW.
TwoBurstsFinished ==
    /\ gpioAvailable
    /\ Len(beeps) = 2
    /\ \A i \in BeepIds : beeps[i].pc = "done" /\ beeps[i].highs = 3
    /\ "buzzer" \in DOMAIN pin
    /\ ~pin["buzzer"]

(* ------------------- specification: handler registration ---------------- *)

\* either device on the mock
InitCallbacks ==
    /\ variant \in Variants
    /\ InitSession
    /\ InitGpio
    /\ InitRouting
    /\ gpioAvailable = FALSE
    /\ now = Epoch

\* the device starts, its callbacks are registered and registered again, and
\* messages arrive: well-formed ones, bytes that are no text, text that is no
\* JSON, JSON that is no object
NextCallbacks ==
    \/ (variant = "stop" /\ GpioInitialize)
    \/ BusGpioInitialize
    \/ (boot = "gpio" /\ Initialize)
    \/ (variant = "stop" /\ SetupEventHandlers)
    \/ RegisterCallbacks
    \/ \E e \in DOMAIN OwnHandlers(variant) :
          \E h \in {OwnHandlers(variant)[e], "other", Raising} :
            (message_callbacks # EmptyDict /\ RegisterCallback(e, h))
    \/ (message_callbacks # EmptyDict /\ ConnectCall)
    \/ OnConnect(0)
    \/ OnConnectSubscribe
    \/ \E topic \in {<<"device", "button", STOP_ID, DefaultRoute>>,
                     SystemHealthTopic},
          p \in Payloads \cup {BadBytes} : OnMessage(topic, p)
    \/ \E topic \in {<<"device", "led", STOP_ID, "1">>, SystemHealthTopic},
          p \in {[text |-> "{\"status\":\"ON\"}", json |-> TRUE,
                  utf8 |-> TRUE, status |-> "ON"],
                 [text |-> "ON", json |-> FALSE, utf8 |-> TRUE,
                  status |-> Missing],
                 BadBytes, NotAnObject} : StopOnMessage(topic, p)

SpecCallbacks == InitCallbacks /\ [][NextCallbacks]_vars

\* C22: each event type has at most one handler: register_callback replaces
\* the handler registered for its event type, whatever was there, and a
\* message dispatched to an event type invokes the handler registered last.
LastRegisteredHandlerInvoked ==
    /\ [](lastReg.event # "" =>
            /\ lastReg.event \in DOMAIN message_callbacks
            /\ message_callbacks[lastReg.event] = lastReg.callback)
    /\ [][lastReg' # lastReg =>
            \A e \in DOMAIN message_callbacks \ {lastReg'.event} :
                /\ e \in DOMAIN message_callbacks'
                /\ message_callbacks'[e] = message_callbacks[e]]_vars
    /\ [][(nMsgs' # nMsgs /\ dispatched'.handler # "none") =>
            /\ invoked' = message_callbacks[dispatched'.handler]
            /\ (lastReg.event = dispatched'.handler =>
                    invoked' = lastReg.callback)
            /\ (invoked' \notin {"_on_route_call", "_on_led_control"} =>
                    UNCHANGED <<led_states, pin, blinks, beeps>>)]_vars

\* a route call delivered on the bus after another handler replaced
\* _on_route_call: the other handler ran, no blink and no beep started
ReplacedHandlerInvoked ==
    /\ variant = "bus"
    /\ lastReg = [event |-> "route_call", callback |-> "other"]
    /\ dispatched.handler = "route_call"
    /\ invoked = "other"
    /\ blinks = <<>>
    /\ beeps = <<>>

\* C23: what goes wrong while a message is handled stays inside the message
\* callback: the network thread that called it goes on with the next message.
NetworkLoopSurvivesMessages == pcNet # "crashed"

(* ------------------- specification: the device identity ----------------- *)

\* either device, with its identity configured or with BUS_ID / STOP_ID set
\* to the empty string in the environment
InitIdentity ==
    /\ variant \in Variants
    /\ InitSessionOf({"", DefaultIdentity(variant)})
    /\ InitGpio
    /\ InitRouting
    /\ gpioAvailable = FALSE
    /\ now = Epoch

\* initialize() and connect()
NextIdentity ==
    \/ Initialize
    \/ ConnectCall
    \/ ConnectPoll
    \/ ConnectTest
    \/ ConnectStartHeartbeat
    \/ ConnectPublishOnline
    \/ \E rc \in ResultCodes : OnConnect(rc)
    \/ OnConnectSubscribe

SpecIdentity == InitIdentity /\ [][NextIdentity]_vars

\* C24: with an empty device identity initialize() builds no client and sets
\* no last will (it fails with a configuration error); initialize() itself
\* opens no connection.
EmptyIdentityBuildsNoSession ==
    identity = "" => (~client /\ will = NoWill)

(* ------------------- specification: set_led, step by step --------------- *)

\* the stop's GPIO controller and the threads that call set_led on it: the
\* button-edge path switches the LED on, the inbound-control path and the
\* blink workers switch it on and off
NextSetLed ==
    \/ GpioInitialize
    \/ \E r \in Routes : SetLedCall("button", r, TRUE)
    \/ \E by \in {"network", "blink"}, r \in Routes \cup {UnknownRoute},
          state \in BOOLEAN : SetLedCall(by, r, state)
    \/ \E i \in LedCallIds : SetLedOutput(i)
    \/ \E i \in LedCallIds : SetLedRecord(i)

SpecSetLed == InitStop /\ [][NextSetLed]_vars

\* C25: the writes to one channel are serialized: whenever no set_led call is
\* in progress, led_states[route] is the level last written to the route's pin.
LedStateIsPinLevel ==
    (gpioAvailable /\ initialized
        /\ \A i \in LedCallIds : ledCalls[i].pc = "done") =>
    \A r \in Routes : led_states[r] = pin[r]

\* C26: in disconnect() on a Connected session the heartbeat is cancelled
\* first and "offline" is the last status published: once disconnect() has
\* published it, the heartbeat thread publishes no "online".
NoOnlineAfterOffline ==
    [][(variant = "bus" /\ dcall.pub /\ hb' # hb) =>
          wire'.kind # "online"]_vars

(* ------------------------ specification: shutdown ----------------------- *)

\* either device from its start to shutdown(), with one blink (and on the
\* bus one beep) asked for while it is connected
NextShutdown ==
    \/ (variant = "stop" /\ GpioInitialize)
    \/ BusGpioInitialize
    \/ (boot = "gpio" /\ Initialize)
    \/ (variant = "stop" /\ SetupEventHandlers)
    \/ RegisterCallbacks
    \/ (message_callbacks # EmptyDict /\ ConnectCall)
    \/ ConnectPoll
    \/ ConnectTest
    \/ ConnectStartHeartbeat
    \/ ConnectPublishOnline
    \/ OnConnect(0)
    \/ OnConnectSubscribe
    \/ BusReady
    \/ (nCmds = 0 /\ LedControl("1", "BLINK"))
    \/ \E i \in BlinkIds : BlinkStart(i)
    \/ \E i \in BlinkIds : BlinkOn(i)
    \/ \E i \in BlinkIds, again \in BOOLEAN : BlinkOff(i, again)
    \/ \E i \in BlinkIds : BlinkRestore(i)
    \/ (nMsgs = 0 /\ OnMessage(<<"device", "button", STOP_ID, ROUTE_ID>>,
                               NoText))
    \/ \E i \in BlinkIds : BusBlinkStart(i)
    \/ \E i \in BlinkIds : BusBlinkOn(i)
    \/ \E i \in BlinkIds, again \in BOOLEAN : BusBlinkOff(i, again)
    \/ \E i \in BeepIds : BeepOn(i)
    \/ \E i \in BeepIds : BeepOff(i)
    \/ (call.result = "ok" /\ DisconnectCall)
    \/ DisconnectJoin
    \/ DisconnectTest
    \/ DisconnectPublishOffline
    \/ DisconnectTeardown
    \/ StopShutdown
    \/ BusShutdown
    \/ BusShutdownLedsOff

SpecShutdown == InitBlink /\ [][NextShutdown]_vars

\* C27: once shutdown() has returned, no blink or beep worker started
\* earlier writes an LED or the buzzer any more.
NoWriteAfterShutdown ==
    [][boot = "down" =>
          UNCHANGED <<led_states, pin, led_red_state, led_green_state>>]_vars

(* ----------------- specification: blinks on one channel ----------------- *)

\* the connected stop handling BLINK commands for one route, each starting a
\* worker while the earlier ones may still be running
NextBlinkTwice ==
    \/ GpioInitialize
    \/ (boot = "gpio" /\ Initialize)
    \/ SetupEventHandlers
    \/ (boot = "wired" /\ ConnectCall)
    \/ OnConnect(0)
    \/ OnConnectSubscribe
    \/ LedControl("1", "BLINK")
    \/ \E i \in BlinkIds : BlinkStart(i)
    \/ \E i \in BlinkIds : BlinkOn(i)
    \/ \E i \in BlinkIds, again \in BOOLEAN : BlinkOff(i, again)
    \/ \E i \in BlinkIds : BlinkRestore(i)

SpecBlinkTwice == InitStop /\ [][NextBlinkTwice]_vars

\* C28: a Blink asked for on a channel whose Blink is still running is
\* neither queued nor rejected: a second worker is started at once and the
\* first goes on as it was; each worker's restore write leaves the LED in
\* the state that worker captured, so that once both have finished the LED
\* is in the state captured by the worker that restored last.
ConcurrentBlinksLastRestoreWins ==
    /\ [][(nCmds' # nCmds /\ lastCmd'.status = "BLINK") =>
            /\ Len(blinks') = Len(blinks) + 1
            /\ blinks'[Len(blinks')].pc = "new"
            /\ blinks'[Len(blinks')].route = lastCmd'.route
            /\ \A i \in BlinkIds : blinks'[i] = blinks[i]]_vars
    /\ [][\A i \in BlinkIds :
            (blinks[i].pc = "restore" /\ blinks'[i].pc = "done") =>
                Get(led_states', blinks[i].route, FALSE)
                    = blinks[i].original]_vars
    /\ [](\A i \in BlinkIds : blinks[i].pc = "new" => ENABLED BlinkStart(i))

\* two workers on route "1" ran at the same time, the second having
\* captured the LED lit by the first; both have finished and the LED is lit
TwoBlinksFinishedLit ==
    /\ Len(blinks) = 2
    /\ \A i \in BlinkIds : blinks[i].route = "1" /\ blinks[i].pc = "done"
    /\ ~blinks[1].original
    /\ blinks[2].original
    /\ led_states["1"]

(* ------------------ specification: connect() called again --------------- *)

\* connect() called up to MaxSessions times, with the heartbeat threads it
\* starts, connection drops, acknowledgements and disconnect()
NextReconnect ==
    \/ Initialize
    \/ ConnectCallTo(MaxSessions)
    \/ ConnectPoll
    \/ ConnectTest
    \/ ConnectStartHeartbeat
    \/ ConnectPublishOnline
    \/ \E rc \in ResultCodes : OnConnect(rc)
    \/ OnConnectSubscribe
    \/ \E rc \in ResultCodes : OnDisconnect(rc)
    \/ DisconnectCall
    \/ DisconnectJoin
    \/ DisconnectTest
    \/ DisconnectPublishOffline
    \/ DisconnectTeardown
    \/ \E i \in HbIds : HbTestRunning(i)
    \/ \E i \in HbIds : HbTestConnected(i)
    \/ \E i \in HbIds : HbGuard(i)
    \/ \E i \in HbIds : HbPublish(i, FALSE)
    \/ \E i \in HbIds : HbWake(i, FALSE)

SpecReconnect == Init /\ [][NextReconnect]_vars

\* C29: at most one heartbeat thread of a session is alive, whatever
\* connect() calls, drops, acknowledgements and disconnect() there have been.
AtMostOneHeartbeat ==
    Cardinality({i \in HbIds : hb[i] # "dead"}) <= 1

\* C30: a rejected edge changes nothing: no channel's timestamp, pressed
\* state or LED, and it starts no handler, so that no publish is attempted and
\* no feedback pattern starts; an accepted edge on channel c changes c's
\* timestamp, pressed state and LED and no other channel's, and c's LED is on
\* when the handler that will attempt the publish is started.
EdgeChangesOnlyItsChannel ==
    [][nEdges' # nEdges =>
          /\ UNCHANGED <<wire, blinks, preq>>
          /\ \A c \in Routes : c = lastEdge'.route =>
               IF lastEdge'.accepted
               THEN /\ last_button_press'[c] = now
                    /\ button_states'[c]
                    /\ led_states'[c]
                    /\ pin'[c]
                    /\ \A r \in Routes \ {c} :
                          /\ last_button_press'[r] = last_button_press[r]
                          /\ button_states'[r] = button_states[r]
                          /\ led_states'[r] = led_states[r]
                          /\ pin'[r] = pin[r]
                    /\ Len(presses') = Len(presses) + 1
                    /\ presses'[Len(presses')].route = c
                    /\ presses'[Len(presses')].calls = 0
                    /\ \A i \in PressIds : presses'[i] = presses[i]
               ELSE UNCHANGED <<last_button_press, button_states, led_states,
                                pin, presses>>]_vars

\* an edge on route "1" was accepted, and the next edge on the route, a
\* tick later, was rejected: the timestamp is still that of the first
EdgeRejectedAfterAccepted ==
    /\ nEdges = 2
    /\ lastEdge = [route |-> "1", at |-> Epoch + 1, accepted |-> FALSE]
    /\ last_button_press["1"] = Epoch
    /\ Len(presses) = 1
    /\ presses[1].route = "1"
    /\ led_states["1"]
    /\ ~led_states["2"]

\* C31: a press accepted at the stop for route R while the stop is Connected
\* is handed to the transport on a topic that a vehicle's route_call
\* subscription matches and that a vehicle configured with route R routes to
\* its route_call handler with the stop's id, and a vehicle configured with
\* any other route routes to no handler.
PressReachesVehicleOfItsRoute ==
    [][\A i \in PressIds :
          /\ (presses[i].pc = "start" /\ presses'[i].pc # "start") =>
                (presses'[i].pc = "send" <=> is_connected)
          /\ (presses[i].pc = "send" /\ presses'[i].pc # "send") =>
                /\ wire'.kind = "button"
                /\ Matches(wire'.topic, RouteCallFilter)
                /\ \A v \in Routes \cup RouteIds, p \in Payloads :
                      DispatchAt(v, OwnHandlers("bus"), wire'.topic, Decode(p))
                        = IF v = presses[i].route
                          THEN [handler |-> "route_call",
                                stop_id |-> identity,
                                route_id |-> presses[i].route,
                                payload |-> Decode(p)]
                          ELSE NoDispatch]_vars

\* the connected stop has published the press of route "2"
PressOfRouteTwoPublished ==
    /\ is_connected
    /\ tstate = "up"
    /\ wire.kind = "button"
    /\ wire.conn
    /\ wire.topic = <<"device", "button", STOP_ID, "2">>
    /\ \E i \in PressIds : presses[i].route = "2" /\ presses[i].result = "ok"

\* C32: once connect() has returned failure the session is not Connected
\* (until connect() is called again): an acknowledgement that arrives after
\* the wait has ended does not leave it Connected with no "online" published
\* and no heartbeat thread.
NotConnectedAfterFailedConnect ==
    (call.result = "fail" /\ pcMain \notin ConnectPcs) => ~is_connected

\* C33: on the vehicle side every LED write of shutdown() comes before the
\* GPIO cleanup: the step of shutdown() that follows cleanup() writes no LED.
ShutdownWritesBeforeCleanup ==
    [][(variant = "bus" /\ boot = "cleanup" /\ boot' = "down") =>
          UNCHANGED <<led_red_state, led_green_state>>]_vars

\* C34: shutdown() twice in succession: of two disconnect() calls with no
\* connect() between them at most one publishes "offline" and at most one
\* tears the transport down. A step that publishes "offline" or stops the
\* loop and disconnects is made only when no disconnect() has torn the
\* transport down since the last connect().
SecondShutdownDoesNothing ==
    [][(\/ offlineCnt' # offlineCnt
        \/ (pcMain = "d_stop" /\ pcMain' = "idle")) =>
          dcall.downAt # nConnect]_vars

\* the second disconnect() has returned without publishing, after the first
\* published "offline" and tore the transport down
SecondShutdownReturned ==
    /\ nDisconnect = 2
    /\ dcall.done
    /\ ~dcall.saw
    /\ ~dcall.pub
    /\ dcall.downAt = nConnect
    /\ offlineCnt = 1
    /\ ~is_connected
    /\ tstate = "none"

\* the connected stop handling ON, OFF and BLINK commands for a configured
\* route and for a route id that is not configured, with the blink workers
\* the BLINK commands start
NextUnknownRoute ==
    \/ GpioInitialize
    \/ (boot = "gpio" /\ Initialize)
    \/ SetupEventHandlers
    \/ (boot = "wired" /\ ConnectCall)
    \/ OnConnect(0)
    \/ OnConnectSubscribe
    \/ \E r \in {"1", UnknownRoute}, status \in {"ON", "OFF", "BLINK"} :
          LedControl(r, status)
    \/ \E i \in BlinkIds : BlinkStart(i)
    \/ \E i \in BlinkIds : BlinkOn(i)
    \/ \E i \in BlinkIds, again \in BOOLEAN : BlinkOff(i, again)
    \/ \E i \in BlinkIds : BlinkRestore(i)

SpecUnknownRoute == InitStop /\ [][NextUnknownRoute]_vars

\* C35: an ON, OFF or BLINK command for a route id that is not configured
\* changes no channel's recorded state or pin level, neither in the handler
\* nor in the blink worker a BLINK starts, adds no entry to the recorded
\* states and leaves the network thread running.
UnknownRouteCommandChangesNothing ==
    /\ [][(nCmds' # nCmds /\ lastCmd'.route \notin Routes) =>
            /\ UNCHANGED <<led_states, pin>>
            /\ pcNet' = "idle"]_vars
    /\ [][\A i \in BlinkIds :
            (blinks[i].route \notin Routes /\ blinks'[i] # blinks[i]) =>
                UNCHANGED <<led_states, pin>>]_vars
    /\ [](DOMAIN led_states \subseteq Routes)

\* with LED "1" lit, a BLINK for the unknown route has been handled and its
\* worker has run to its end
UnknownRouteBlinkFinished ==
    /\ lastCmd = [route |-> UnknownRoute, status |-> "BLINK"]
    /\ \E i \in BlinkIds :
          /\ blinks[i].route = UnknownRoute
          /\ blinks[i].pc = "done"
          /\ blinks[i].n = Cycles(blinks[i])
    /\ GetLedState("1")
    /\ ~GetLedState("2")
    /\ gpioAvailable => pin["1"]

\* C36: an LED control command whose payload is an object without a status
\* field is handled as OFF: set_led(route, False) is what the handler does,
\* so that the LED of a configured route is driven low and recorded off, no
\* other channel changes and no blink worker is started.
MissingStatusHandledAsOff ==
    [][(/\ nMsgs' # nMsgs
        /\ invoked' = "_on_led_control"
        /\ lastMsg'.payload.text = "{}") =>
          LET r == dispatched'.route_id
              w == SetLed(led_states, pin, r, FALSE)
          IN  /\ led_states' = w.led
              /\ pin' = w.pin
              /\ Len(blinks') = Len(blinks)
              /\ (r \in Routes /\ ~CleanedUp) =>
                    /\ r \in DOMAIN led_states' /\ ~led_states'[r]
                    /\ gpioAvailable => ~pin'[r]
                    /\ \A o \in DOMAIN led_states \ {r} :
                          led_states'[o] = led_states[o]]_vars

\* after an ON for route "1", the command without a status has been handled
\* for route "2": its LED is recorded off, LED "1" is still lit
MissingStatusTurnedOff ==
    /\ nMsgs = 2
    /\ invoked = "_on_led_control"
    /\ lastMsg.payload.text = "{}"
    /\ dispatched.route_id = "2"
    /\ "2" \in DOMAIN led_states /\ ~led_states["2"]
    /\ GetLedState("1")

====
